---- MODULE Spec2Model ----
(***************************************************************************)
(* Model of the passcards item store: the Item entity of item_store.ts,    *)
(* its revisioning (generateRevisionId), its tombstones, and the listing   *)
(* and loading operations of the Agile Keychain vault that backs it.       *)
(*                                                                         *)
(* Item, ContentUtil, generateRevisionId and itemStates are translated     *)
(* from item_store.ts.  The vault (agile_keychain.ts) and the digest       *)
(* (crypto/sha1.ts, base/collectionutil.ts) are not part of the sources;   *)
(* they are modelled from the specification: the vault keeps one index     *)
(* (contents.js) and one file per item, the digest is collision free.      *)
(*                                                                         *)
(* unlockStore is translated from item_store.ts.  The key agent            *)
(* (key_agent.ts), the item codec (agile_keychain_crypto.ts) and the store *)
(* of sync metadata are not part of the sources either; they are modelled  *)
(* from the specification, with ciphers and key derivation as symbolic     *)
(* terms: a ciphertext opens only under the key that made it.              *)
(***************************************************************************)
EXTENDS Integers, Sequences, FiniteSets, TLC

VARIABLES
    items,      \* the Item instances held by the callers, by handle
    ctorUuid,   \* per handle, the uuid the constructor assigned
    contents,   \* the vault's index file: uuid -> <<overview>> or <<>>
    files,      \* the vault's per-item files: uuid -> <<file>> or <<>>
    everRemoved,\* uuids on which remove() has resolved
    written,    \* per uuid, the last operation that changed its storage
    lastCall,   \* the operation that ran last, its outcome and pre-state
    nops,       \* number of operations performed so far
    storedKeys, \* the vault's key file: the wrapped key generations
    agent,      \* the key agent's table: key identifier -> <<key>> or <<>>
    unlock,     \* the unlockStore() call in flight and its position
    lastSaved,  \* per uuid, what the most recent successful save was given
    crypto,     \* inputs and result of the codec function applied last
    syncRevisions, \* sync metadata: the stored rows, and what was recorded
    inflight,   \* the saveItem() calls in flight, by handle
    vaults,     \* the vault directories, the open Vault instances, their agents
    cloning,    \* cloneItem(): the heap of arrays and content objects, source, result
    seriesCall, \* asyncutil.series(): the call, the functions' promises, the result
    untilCall,  \* asyncutil.until(): the invocations of func, their results, the result
    repair,     \* repairItem(): the call in flight, what it reported, asked and saved
    listing,    \* FileVFS.list(): the directory, the stat calls pending, what cb was given
    auth        \* OAuthFlow.authenticate(): local storage, the poll timer, the promise

vars == <<items, ctorUuid, contents, files, everRemoved, written, lastCall,
          nops, storedKeys, agent, unlock, lastSaved, crypto, syncRevisions,
          inflight, vaults, cloning, seriesCall, untilCall, repair, listing, auth>>

----------------------------------------------------------------------------
(* Bounds *)

MaxItems == 2       \* Item instances alive at once
MaxTicks == 2       \* the clock reads 0 .. MaxTicks ticks
MaxOps == 4         \* operations performed in one run
MaxKeyOps == 3      \* operations on items in one run with locking

(* Program constants *)

MinStepMs == 1000   \* updateTimestamps: minimum advance of updatedAt
NoDate == -1        \* an undefined Date field

\* the readings of the clock: multiples of half a second
ClockValues == { t * 500 : t \in 0..MaxTicks }

UUIDs == {"U1", "U2"}

LOGIN == "webforms.WebForm"
SECURE_NOTE == "securenotes.SecureNote"
TOMBSTONE == "system.Tombstone"

NoStore == "none"
Vault == "vault"

NoRevision == <<>>

----------------------------------------------------------------------------
(* ItemContent and ContentUtil *)

ContentUtil_empty ==
    [sections |-> <<>>, urls |-> <<>>, notes |-> "", formFields |-> <<>>,
     htmlMethod |-> "", htmlAction |-> "", htmlId |-> ""]

FacebookContent ==
    [sections |-> <<>>,
     urls |-> << [label |-> "website", url |-> "facebook.com"] >>,
     notes |-> "",
     formFields |-> << [designation |-> "username", value |-> "john.doe"] >>,
     htmlMethod |-> "", htmlAction |-> "", htmlId |-> ""]

ContentValues == {ContentUtil_empty, FacebookContent}

ContentUtil_account(content) ==
    LET accountFields == SelectSeq(content.formFields,
                                   LAMBDA f : f.designation = "username")
    IN  IF Len(accountFields) > 0 THEN accountFields[1].value ELSE ""

----------------------------------------------------------------------------
(* Item *)

Item_constructor(store, uuid) ==
    [store |-> store,
     revision |-> NoRevision,
     parentRevision |-> NoRevision,
     uuid |-> uuid,
     folderUuid |-> "",
     faveIndex |-> "undefined",
     trashed |-> FALSE,
     updatedAt |-> NoDate,
     createdAt |-> NoDate,
     typeName |-> LOGIN,
     title |-> "",
     openContents |-> "undefined",
     locations |-> <<>>,
     account |-> "undefined",
     content |-> <<>>]

\* variant: a trashed item is taken for a tombstone
isTombstone_trashed(item) == item.trashed

\* variant: the type is compared with the wrong type code
isTombstone_wrongType(item) == item.typeName = "system.folder.Regular"

isTombstone(item) == item.typeName = TOMBSTONE

\* variant: an item counts as saved as soon as it has a last-modified time
isSaved_dateOnly(item) == item.updatedAt # NoDate

isSaved(item) == item.store # NoStore /\ item.updatedAt # NoDate

setContent(item, content) == [item EXCEPT !.content = <<content>>]

\* variant: the creation time is set anew on every call
updateTimestamps_resetCreated(item, now) ==
    LET prevDate == item.updatedAt
        updated == IF prevDate # NoDate /\ now - prevDate < MinStepMs
                   THEN prevDate + MinStepMs
                   ELSE now
    IN  [item EXCEPT !.createdAt = now, !.updatedAt = updated]

\* variant: the last-modified time is the clock reading, never advanced
updateTimestamps_noClamp(item, now) ==
    [item EXCEPT
        !.createdAt = IF item.createdAt = NoDate THEN now ELSE item.createdAt,
        !.updatedAt = now]

updateTimestamps(item, now) ==
    LET created == IF item.createdAt = NoDate THEN now ELSE item.createdAt
        prevDate == item.updatedAt
        updated == IF prevDate # NoDate /\ now - prevDate < MinStepMs
                   THEN prevDate + MinStepMs
                   ELSE now
    IN  [item EXCEPT !.createdAt = created, !.updatedAt = updated]

\* variant: the URLs are pushed onto the locations that are there already
updateOverviewFromContent_append(item, content) ==
    [item EXCEPT
        !.locations = item.locations
                      \o [k \in 1..Len(content.urls) |-> content.urls[k].url],
        !.account = ContentUtil_account(content)]

updateOverviewFromContent(item, content) ==
    [item EXCEPT
        !.locations = [k \in 1..Len(content.urls) |-> content.urls[k].url],
        !.account = ContentUtil_account(content)]

\* variant: remove() leaves the folder of the item in place
Item_remove_fields_keepFolderUuid(item) ==
    [item EXCEPT
        !.typeName = TOMBSTONE,
        !.title = "Unnamed",
        !.trashed = TRUE,
        !.content = <<ContentUtil_empty>>,
        !.locations = <<>>,
        !.faveIndex = "null",
        !.openContents = "null"]

\* variant: remove() erases the uuid together with the other properties
Item_remove_fields_eraseUuid(item) ==
    [item EXCEPT
        !.uuid = "",
        !.typeName = TOMBSTONE,
        !.title = "Unnamed",
        !.trashed = TRUE,
        !.content = <<ContentUtil_empty>>,
        !.folderUuid = "",
        !.locations = <<>>,
        !.faveIndex = "null",
        !.openContents = "null"]

\* variant: remove() leaves the content of the item as it is
Item_remove_fields_keepContent(item) ==
    [item EXCEPT
        !.typeName = TOMBSTONE,
        !.title = "Unnamed",
        !.trashed = TRUE,
        !.folderUuid = "",
        !.locations = <<>>,
        !.faveIndex = "null",
        !.openContents = "null"]

\* the field assignments of Item.remove() that precede store.saveItem()
Item_remove_fields(item) ==
    [item EXCEPT
        !.typeName = TOMBSTONE,
        !.title = "Unnamed",
        !.trashed = TRUE,
        !.content = <<ContentUtil_empty>>,
        !.folderUuid = "",
        !.locations = <<>>,
        !.faveIndex = "null",
        !.openContents = "null"]

----------------------------------------------------------------------------
(* Revisions *)

\* JSON.stringify of an object literal: the members in the order of the
\* literal, a member whose value is undefined left out, null kept.
JSON_stringify(m) ==
    << <<"uuid", m.uuid>> >>
    \o (IF m.parentRevision = NoRevision THEN <<>>
        ELSE << <<"parentRevision", m.parentRevision>> >>)
    \o << <<"title", m.title>> >>
    \o (IF m.updatedAt = NoDate THEN <<>> ELSE << <<"updatedAt", m.updatedAt>> >>)
    \o (IF m.createdAt = NoDate THEN <<>> ELSE << <<"createdAt", m.createdAt>> >>)
    \o << <<"typeName", m.typeName>> >>
    \o (IF m.openContents = "undefined" THEN <<>>
        ELSE << <<"openContents", m.openContents>> >>)
    \o << <<"folderUuid", m.folderUuid>> >>
    \o (IF m.faveIndex = "undefined" THEN <<>>
        ELSE << <<"faveIndex", m.faveIndex>> >>)
    \o << <<"trashed", m.trashed>> >>
    \o << <<"content", m.content>> >>

\* hexlify(SHA1(bufferFromString(s))): a collision-free digest of the string
sha1_hexlify(contentString) == <<"sha1", contentString>>

contentMetadata(item, content) ==
    [uuid |-> item.uuid,
     parentRevision |-> item.parentRevision,
     title |-> item.title,
     updatedAt |-> item.updatedAt,
     createdAt |-> item.createdAt,
     typeName |-> item.typeName,
     openContents |-> item.openContents,
     folderUuid |-> item.folderUuid,
     faveIndex |-> item.faveIndex,
     trashed |-> item.trashed,
     content |-> content]

\* variant: the revision is a digest of the content alone
generateRevisionId_contentOnly(item, content) ==
    sha1_hexlify(<< <<"content", content>> >>)

\* variant: the overview locations are hashed as well
generateRevisionId_withLocations(item, content) ==
    sha1_hexlify(JSON_stringify(contentMetadata(item, content))
                 \o << <<"locations", item.locations>> >>)

\* variant: the folder of the item is left out of the hashed metadata
generateRevisionId_noFolderUuid(item, content) ==
    sha1_hexlify(JSON_stringify(
        [contentMetadata(item, content) EXCEPT !.folderUuid = ""]))

generateRevisionId(item, content) ==
    sha1_hexlify(JSON_stringify(contentMetadata(item, content)))

----------------------------------------------------------------------------
(* Keychain codec and key wrapping.  Byte strings are symbolic terms, each *)
(* a tuple that starts with a tag; a ciphertext decrypted under another    *)
(* key than the one that made it yields garbage bytes.                     *)

Passwords == {"logMEin", "old-pass", "wrong-password"}
Salts == {"salt1", "salt2"}
KeyIds == {"K1", "K2"}

\* the PBKDF2 rounds of the vaults of the tests
Iterations == 100

\* the header of an OpenSSL salted blob
SaltedMagic == "Salted__"

\* the master key material of the key with the given identifier
MasterKey(id) == <<"key", id>>

\* the known plaintext that a validation block encrypts
ValidationPattern == <<"pattern">>

\* key_agent.keyFromPassword(): PBKDF2 of the password
keyFromPassword(password, salt, iterations) ==
    <<"pbkdf2", <<"password", password>>, salt, iterations>>

\* the key and iv that the item codec derives from key material and salt
openSSLKey(keyMaterial, salt) == <<"opensslkey", keyMaterial, salt>>

aesCbcEncrypt(key, plainText) == <<"aes", key, plainText>>

aesCbcDecrypt(key, cipherText) ==
    IF cipherText[1] = "aes" /\ cipherText[2] = key
    THEN cipherText[3]
    ELSE <<"garbage", key, cipherText>>

\* the padding check of the block cipher: garbage does not end in padding
validPadding(plainText) == plainText[1] # "garbage"

\* the validation block that belongs to a master key
validationBlock(key) == aesCbcEncrypt(key, ValidationPattern)

\* key_agent.encryptKey(derivedKey, key): the wrapped key and its validation
encryptKey(derivedKey, key) ==
    [key |-> aesCbcEncrypt(derivedKey, key),
     validation |-> validationBlock(key)]

\* the outcome of a promise: rejected with an error, or resolved to a value
Failed(err) == [err |-> err, value |-> <<>>]

Ok(value) == [err |-> "", value |-> <<value>>]

DecryptionFailed == Failed("DecryptionError")

\* variant: the unwrapped candidate is returned without being verified
decryptKey_unverified(derivedKey, encryptedKey, validation) ==
    Ok(aesCbcDecrypt(derivedKey, encryptedKey))

\* key_agent.decryptKey(derivedKey, encryptedKey, validation)
decryptKey(derivedKey, encryptedKey, validation) ==
    LET candidate == aesCbcDecrypt(derivedKey, encryptedKey)
    IN  IF validationBlock(candidate) = validation
        THEN Ok(candidate)
        ELSE DecryptionFailed

\* agile_keychain_crypto.encryptAgileKeychainItemData(): the salt is the
\* fresh random salt of the call
encryptAgileKeychainItemData(key, plainText, salt) ==
    <<SaltedMagic, salt, aesCbcEncrypt(openSSLKey(key, salt), plainText)>>

\* variant: the decrypted bytes are returned whatever their padding
decryptAgileKeychainItemData_noPaddingCheck(key, cipherText) ==
    IF cipherText[1] # SaltedMagic THEN DecryptionFailed
    ELSE Ok(aesCbcDecrypt(openSSLKey(key, cipherText[2]),
                                 cipherText[3]))

\* agile_keychain_crypto.decryptAgileKeychainItemData()
decryptAgileKeychainItemData(key, cipherText) ==
    IF cipherText[1] # SaltedMagic THEN DecryptionFailed
    ELSE LET plainText == aesCbcDecrypt(openSSLKey(key, cipherText[2]),
                                        cipherText[3])
         IN  IF validPadding(plainText) THEN Ok(plainText)
             ELSE DecryptionFailed

\* one key generation of the key file: a master key wrapped under a password
storedKey(identifier, password, salt) ==
    LET wrapped == encryptKey(keyFromPassword(password, salt, Iterations),
                              MasterKey(identifier))
    IN  [identifier |-> identifier, data |-> wrapped.key,
         validation |-> wrapped.validation, salt |-> salt,
         iterations |-> Iterations]

\* key_agent.decryptKeys(keys, password): the keys that the password unwraps
decryptKeys(keys, password) ==
    LET try(k) == decryptKey(keyFromPassword(password, k.salt, k.iterations),
                             k.data, k.validation)
        valid == SelectSeq(keys, LAMBDA k : try(k).err = "")
    IN  IF Len(valid) = 0
        THEN [err |-> "DecryptionError", keys |-> <<>>]
        ELSE [err |-> "",
              keys |-> [i \in 1..Len(valid) |->
                          [id |-> valid[i].identifier,
                           key |-> try(valid[i]).value[1]]]]

\* KeyAgent.addKey(id, key): registers the key, replacing an earlier one
addKey(table, id, key) == [table EXCEPT ![id] = <<key>>]

\* variant: only the key that was added first is removed
forgetKeys_firstOnly(table) == [table EXCEPT !["K1"] = <<>>]

\* KeyAgent.forgetKeys(): removes all key material
forgetKeys(table) == [id \in KeyIds |-> <<>>]

NoKeys == [id \in KeyIds |-> <<>>]

----------------------------------------------------------------------------
(* The vault: index file and per-item files *)

\* contents.js keeps the save dates with a resolution of one second
toSeconds(t) == (t \div 1000) * 1000

toOverview(item) ==
    [uuid |-> item.uuid,
     revision |-> item.revision,
     parentRevision |-> item.parentRevision,
     folderUuid |-> item.folderUuid,
     faveIndex |-> item.faveIndex,
     trashed |-> item.trashed,
     updatedAt |-> toSeconds(item.updatedAt),
     createdAt |-> toSeconds(item.createdAt),
     typeName |-> item.typeName,
     title |-> item.title,
     openContents |-> item.openContents,
     locations |-> item.locations]

fromOverview(o) ==
    [Item_constructor(Vault, o.uuid) EXCEPT
        !.revision = o.revision,
        !.parentRevision = o.parentRevision,
        !.folderUuid = o.folderUuid,
        !.faveIndex = o.faveIndex,
        !.trashed = o.trashed,
        !.updatedAt = o.updatedAt,
        !.createdAt = o.createdAt,
        !.typeName = o.typeName,
        !.title = o.title,
        !.openContents = o.openContents,
        !.locations = o.locations]

\* the identifier of the key that the vault encrypts item data with
ItemKeyID == "K1"

\* the salt of the blobs that the vault writes
ItemSalt == "salt1"

\* the item data that is encrypted: the content as JSON text
toItemData(content) == <<"json", content>>

fromItemData(data) == data[2]

TheVault == [contents |-> contents, files |-> files, agent |-> agent]

\* Store.listItems(opts): the index entries, tombstones only on request,
\* other entries only while the item's file exists
listItems(store, includeTombstones) ==
    { fromOverview(store.contents[u][1]) :
        u \in { v \in UUIDs :
                  /\ store.contents[v] # <<>>
                  /\ IF isTombstone(store.contents[v][1])
                     THEN includeTombstones
                     ELSE store.files[v] # <<>> } }

\* variant: the states are enumerated from the index file alone
itemStates_fromIndex(store) ==
    { [uuid |-> v,
       revision |-> store.contents[v][1].revision,
       deleted |-> isTombstone(store.contents[v][1])] :
        v \in { u \in UUIDs : store.contents[u] # <<>> } }

\* variant: a trashed item is reported as deleted
itemStates_trashedDeleted(store) ==
    { [uuid |-> item.uuid,
       revision |-> item.revision,
       deleted |-> item.trashed] : item \in listItems(store, TRUE) }

itemStates(store) ==
    { [uuid |-> item.uuid,
       revision |-> item.revision,
       deleted |-> isTombstone(item)] : item \in listItems(store, TRUE) }

listItemStates(store) == itemStates(store)

\* Store.getRawDecryptedData(item): decrypts the data kept in the item's
\* file with the key that the file names, if the agent holds it
store_getRawDecryptedData(store, item) ==
    IF store.files[item.uuid] = <<>> THEN Failed("FileNotFound")
    ELSE LET file == store.files[item.uuid][1]
         IN  IF store.agent[file.keyID] = <<>> THEN Failed("LockedStoreError")
             ELSE decryptAgileKeychainItemData(store.agent[file.keyID][1],
                                               file.encrypted)

\* Store.getContent(item): the decrypted data of the item, parsed
store_getContent(store, item) ==
    LET data == store_getRawDecryptedData(store, item)
    IN  IF data.err # "" THEN data ELSE Ok(fromItemData(data.value[1]))

\* Store.loadItem(uuid): the current version, read from the item's file
loadItem(store, uuid) ==
    IF store.files[uuid] = <<>>
    THEN [err |-> "ItemNotFound", item |-> <<>>, content |-> <<>>]
    ELSE LET file == store.files[uuid][1]
             item == fromOverview(file.overview)
             content == store_getContent(store, item)
         IN  IF content.err # ""
             THEN [err |-> content.err, item |-> <<>>, content |-> <<>>]
             ELSE [err |-> "",
                   item |-> << setContent(item, content.value[1]) >>,
                   content |-> content.value]

\* Item.getRawDecryptedData()
getRawDecryptedData(store, item) ==
    IF item.store = NoStore THEN Failed("UnsavedItemError")
    ELSE store_getRawDecryptedData(store, item)

\* Item.getContent()
getContent(store, item) ==
    IF item.content # <<>> THEN Ok(item.content[1])
    ELSE IF item.store = NoStore THEN Ok(ContentUtil_empty)
    ELSE store_getContent(store, item)

\* variant: the save leaves parentRevision as it was
saveItem_keepParent(store, item, now) ==
    LET stamped == updateTimestamps(item, now)
        fetched == getContent(store, stamped)
    IN  IF fetched.err # "" \/ store.agent[ItemKeyID] = <<>>
        THEN [ok |-> FALSE,
              err |-> IF fetched.err # "" THEN fetched.err
                      ELSE "LockedStoreError",
              item |-> stamped,
              contents |-> store.contents, files |-> store.files]
        ELSE
          LET content == fetched.value[1]
              synced == updateOverviewFromContent(
                            [stamped EXCEPT !.content = fetched.value],
                            content)
              saved == [synced EXCEPT
                           !.revision = generateRevisionId(synced, content)]
              overview == toOverview(saved)
          IN  [ok |-> TRUE, err |-> "", item |-> saved,
               contents |-> [store.contents EXCEPT ![saved.uuid] = <<overview>>],
               files |-> [store.files EXCEPT ![saved.uuid] =
                              IF isTombstone(saved) THEN <<>>
                              ELSE << [overview |-> overview,
                                       keyID |-> ItemKeyID,
                                       encrypted |->
                                         encryptAgileKeychainItemData(
                                             store.agent[ItemKeyID][1],
                                             toItemData(content),
                                             ItemSalt)] >>]]

\* Store.saveItem(item) for a local change
saveItem(store, item, now) ==
    LET stamped == updateTimestamps(item, now)
        fetched == getContent(store, stamped)
    IN  IF fetched.err # "" \/ store.agent[ItemKeyID] = <<>>
        THEN [ok |-> FALSE,
              err |-> IF fetched.err # "" THEN fetched.err
                      ELSE "LockedStoreError",
              item |-> stamped,
              contents |-> store.contents, files |-> store.files]
        ELSE
          LET content == fetched.value[1]
              synced == updateOverviewFromContent(
                            [stamped EXCEPT !.content = fetched.value],
                            content)
              chained == [synced EXCEPT !.parentRevision = synced.revision]
              saved == [chained EXCEPT
                           !.revision = generateRevisionId(chained, content)]
              overview == toOverview(saved)
          IN  [ok |-> TRUE, err |-> "", item |-> saved,
               contents |-> [store.contents EXCEPT ![saved.uuid] = <<overview>>],
               files |-> [store.files EXCEPT ![saved.uuid] =
                              IF isTombstone(saved) THEN <<>>
                              ELSE << [overview |-> overview,
                                       keyID |-> ItemKeyID,
                                       encrypted |->
                                         encryptAgileKeychainItemData(
                                             store.agent[ItemKeyID][1],
                                             toItemData(content),
                                             ItemSalt)] >>]]

----------------------------------------------------------------------------
(* State machine *)

Handles == 1..Len(items)

Call(op, h, uuid, ok, err, prev) ==
    [op |-> op, h |-> h, uuid |-> uuid, ok |-> ok, err |-> err, prev |-> prev]

\* the values a caller assigns to the public fields of an Item
FieldValues ==
    { <<"title", "Facebook">>, <<"faveIndex", "42">>, <<"trashed", TRUE>>,
      <<"folderUuid", "F1">>, <<"locations", <<"mysite.com">> >> }

assignField(item, fv) ==
    CASE fv[1] = "title" -> [item EXCEPT !.title = fv[2]]
      [] fv[1] = "faveIndex" -> [item EXCEPT !.faveIndex = fv[2]]
      [] fv[1] = "trashed" -> [item EXCEPT !.trashed = fv[2]]
      [] fv[1] = "folderUuid" -> [item EXCEPT !.folderUuid = fv[2]]
      [] fv[1] = "typeName" -> [item EXCEPT !.typeName = fv[2]]
      [] fv[1] = "openContents" -> [item EXCEPT !.openContents = fv[2]]
      [] fv[1] = "locations" -> [item EXCEPT !.locations = fv[2]]
      [] fv[1] = "uuid" -> [item EXCEPT !.uuid = fv[2]]
      [] fv[1] = "parentRevision" -> [item EXCEPT !.parentRevision = fv[2]]
      [] fv[1] = "updatedAt" -> [item EXCEPT !.updatedAt = fv[2]]
      [] fv[1] = "createdAt" -> [item EXCEPT !.createdAt = fv[2]]
      [] fv[1] = "typeName" -> [item EXCEPT !.typeName = fv[2]]
      [] fv[1] = "openContents" -> [item EXCEPT !.openContents = fv[2]]
      [] fv[1] = "content" -> [item EXCEPT !.content = fv[2]]
      [] fv[1] = "store" -> [item EXCEPT !.store = fv[2]]
      [] fv[1] = "account" -> [item EXCEPT !.account = fv[2]]

\* the password of the vaults of the tests
TestPassword == "logMEin"

\* the key file of a new vault: one key, wrapped under the vault's password
NewVaultKeys == << storedKey(ItemKeyID, TestPassword, "salt1") >>

\* the key agent of a vault that has been unlocked with its password
UnlockedAgent == addKey(NoKeys, ItemKeyID, MasterKey(ItemKeyID))

\* no unlockStore() call is in flight
NoUnlock == [pc |-> "idle", password |-> "", keys |-> <<>>, decrypted |-> <<>>]

NoCrypto == [op |-> "none"]

StoreIds == {"cloud", "backup"}

\* no revision has been recorded: no row, and nothing to remember
NoSyncRevisions ==
    [table |-> {}, recorded |-> [k \in UUIDs \X StoreIds |-> <<>>]]

\* the paths of the vault directories on the file system
Paths == {"/a.agilekeychain", "/b.agilekeychain"}

\* no vault directory exists and no Vault instance is open
NoVaults ==
    [fs |-> [path \in Paths |-> <<>>],
     open |-> <<>>,
     agents |-> <<>>,
     password |-> [path \in Paths |-> ""]]

\* no cloneItem() call is being looked at
NoCloning == [heap |-> <<>>, source |-> <<>>, result |-> <<>>]

\* asyncutil.series() has not been called
NoSeries ==
    [funcs |-> <<>>, rest |-> <<>>, results |-> <<>>, invocations |-> <<>>,
     settled |-> <<>>, awaiting |-> 0, outcome |-> <<"none">>]

\* asyncutil.until() has not been called
NoUntil ==
    [settled |-> <<>>, reacted |-> 0, awaiting |-> FALSE,
     outcome |-> <<"none">>]

\* repairItem() has not been called
NoRepair ==
    [pc |-> "idle", h |-> 0, before |-> <<>>, content |-> <<>>,
     reported |-> <<>>, prompts |-> 0, answer |-> <<>>, saves |-> 0,
     outcome |-> <<"none">>]

\* FileVFS.list() has not been called
NoListing ==
    [pc |-> "idle", dir |-> <<>>, files |-> <<>>, pending |-> {},
     done |-> 0, infoList |-> <<>>, cbCalls |-> <<>>, log |-> <<>>]

\* no entry under the key in local storage: getItem() gives null
NoEntry == <<>>

\* OAuthFlow.authenticate() has not been called
NoAuth ==
    [state |-> "", storage |-> NoEntry, polling |-> FALSE,
     windowOpen |-> FALSE, cleaned |-> FALSE, settledBy |-> NoEntry,
     credentials |-> <<"none">>]

\* what a caller hands to a save: the fields it has set on the item
givenFields(item, content) ==
    [title |-> item.title, faveIndex |-> item.faveIndex,
     trashed |-> item.trashed, content |-> content, closed |-> FALSE]

EmptyVault == [contents |-> [u \in UUIDs |-> <<>>],
               files |-> [u \in UUIDs |-> <<>>],
               agent |-> UnlockedAgent]

TestItem ==
    setContent([Item_constructor(Vault, "U1") EXCEPT !.title = "Facebook"],
               FacebookContent)

\* the vault of the test data: one login item, saved earlier
TestVault ==
    LET r == saveItem(EmptyVault, TestItem, 0)
    IN  [contents |-> r.contents, files |-> r.files, agent |-> UnlockedAgent]

\* the variables that the operations on items leave alone
KeysUnchanged == UNCHANGED <<storedKeys, agent, unlock>>

OthersUnchanged == UNCHANGED <<crypto, syncRevisions, inflight, vaults, cloning, seriesCall, untilCall, repair, listing, auth>>

Init ==
    /\ items = <<>>
    /\ ctorUuid = <<>>
    /\ \E v \in {EmptyVault, TestVault} :
          /\ contents = v.contents
          /\ files = v.files
          /\ written = [u \in UUIDs |->
                          IF v.contents[u] = <<>> THEN "none" ELSE "save"]
          /\ lastSaved = [u \in UUIDs |->
                            IF v.contents[u] = <<>> THEN <<>>
                            ELSE << givenFields(TestItem, TestItem.content) >>]
    /\ everRemoved = {}
    /\ lastCall = Call("init", 0, "", TRUE, "", <<>>)
    /\ nops = 0
    /\ storedKeys = NewVaultKeys
    /\ agent = UnlockedAgent
    /\ unlock = NoUnlock
    /\ crypto = NoCrypto
    /\ syncRevisions = NoSyncRevisions
    /\ inflight = <<>>
    /\ vaults = NoVaults
    /\ auth = NoAuth
    /\ listing = NoListing
    /\ repair = NoRepair
    /\ untilCall = NoUntil
    /\ seriesCall = NoSeries
    /\ cloning = NoCloning

Step ==
    /\ nops < MaxOps
    /\ nops' = nops + 1
    /\ KeysUnchanged
    /\ OthersUnchanged

\* new Item(store?, uuid?)
NewItem(store, uuid) ==
    /\ Len(items) < MaxItems
    /\ Step
    /\ items' = Append(items, Item_constructor(store, uuid))
    /\ ctorUuid' = Append(ctorUuid, uuid)
    /\ lastCall' = Call("new", Len(items) + 1, uuid, TRUE, "", <<>>)
    /\ UNCHANGED <<contents, files, everRemoved, written, lastSaved>>

\* item.<field> = value
SetField(h, fv) ==
    /\ h \in Handles
    /\ Step
    /\ items' = [items EXCEPT ![h] = assignField(items[h], fv)]
    /\ lastCall' = Call("setField", h, items[h].uuid, TRUE, "", <<items[h]>>)
    /\ UNCHANGED <<ctorUuid, contents, files, everRemoved, written, lastSaved>>

SetContent(h, content) ==
    /\ h \in Handles
    /\ Step
    /\ items' = [items EXCEPT ![h] = setContent(items[h], content)]
    /\ lastCall' = Call("setContent", h, items[h].uuid, TRUE, "", <<items[h]>>)
    /\ UNCHANGED <<ctorUuid, contents, files, everRemoved, written, lastSaved>>

UpdateTimestamps(h, now) ==
    /\ h \in Handles
    /\ Step
    /\ items' = [items EXCEPT ![h] = updateTimestamps(items[h], now)]
    /\ lastCall' = Call("updateTimestamps", h, items[h].uuid, TRUE, "",
                        <<items[h]>>)
    /\ UNCHANGED <<ctorUuid, contents, files, everRemoved, written, lastSaved>>

UpdateOverviewFromContent(h, content) ==
    /\ h \in Handles
    /\ Step
    /\ items' = [items EXCEPT
                    ![h] = updateOverviewFromContent(items[h], content)]
    /\ lastCall' = Call("updateOverviewFromContent", h, items[h].uuid, TRUE,
                        "", <<items[h]>>)
    /\ UNCHANGED <<ctorUuid, contents, files, everRemoved, written, lastSaved>>

\* the effect of store.saveItem(item) on the item and on the vault
DoSaveItem(op, h, item, now) ==
    LET r == saveItem(TheVault, item, now)
    IN  /\ items' = [items EXCEPT ![h] = r.item]
        /\ contents' = r.contents
        /\ files' = r.files
        /\ written' = IF r.ok
                      THEN [written EXCEPT ![item.uuid] =
                                IF op = "remove" THEN "remove" ELSE "save"]
                      ELSE written
        /\ lastSaved' = IF r.ok
                        THEN [lastSaved EXCEPT ![item.uuid] =
                                 << givenFields(item,
                                        IF item.content # <<>>
                                        THEN item.content
                                        ELSE r.item.content) >>]
                        ELSE lastSaved
        /\ lastCall' = Call(op, h, item.uuid, r.ok, r.err,
                            <<items[h], files[items[h].uuid] # <<>> >>)

\* the message of the error that saveTo() rejects a new, empty item with
NoContentSet == "Unable to save new item, no content set"

Reject(op, h, err) ==
    /\ lastCall' = Call(op, h, items[h].uuid, FALSE, err, <<items[h]>>)
    /\ UNCHANGED <<items, ctorUuid, contents, files, everRemoved, written, lastSaved>>

\* variant: an item whose content was never loaded is taken to be
\* unchanged and is not handed to the store
SaveTo_skipUnloaded(op, h, store, now) ==
    IF items[h].content = <<>> /\ ~isSaved(items[h])
    THEN Reject(op, h, NoContentSet)
    ELSE IF items[h].content = <<>>
    THEN /\ lastCall' = Call(op, h, items[h].uuid, TRUE, "", <<items[h]>>)
         /\ lastSaved' = [lastSaved EXCEPT ![items[h].uuid] =
                             << givenFields(items[h],
                                    lastSaved[items[h].uuid][1].content) >>]
         /\ UNCHANGED <<items, ctorUuid, contents, files, everRemoved,
                        written>>
    ELSE /\ DoSaveItem(op, h, [items[h] EXCEPT !.store = store], now)
         /\ UNCHANGED <<ctorUuid, everRemoved>>

\* item.saveTo(store)
SaveTo(op, h, store, now) ==
    IF items[h].content = <<>> /\ ~isSaved(items[h])
    THEN Reject(op, h, NoContentSet)
    ELSE /\ DoSaveItem(op, h, [items[h] EXCEPT !.store = store], now)
         /\ UNCHANGED <<ctorUuid, everRemoved>>

ItemSaveTo(h, now) ==
    /\ h \in Handles
    /\ Step
    /\ SaveTo("saveTo", h, Vault, now)

\* variant: save() hands the item to saveTo() without looking at its store
ItemSave_noStoreCheck(h, now) ==
    /\ h \in Handles
    /\ Step
    /\ SaveTo("save", h, items[h].store, now)

\* item.save()
ItemSave(h, now) ==
    /\ h \in Handles
    /\ Step
    /\ IF items[h].store = NoStore
       THEN Reject("save", h, "UnsavedItemError")
       ELSE SaveTo("save", h, items[h].store, now)

\* variant: remove() erases the entry and the file of the item instead of
\* saving a tombstone
ItemRemove_hardDelete(h, now) ==
    /\ h \in Handles
    /\ Step
    /\ IF items[h].store = NoStore
       THEN Reject("remove", h, "UnsavedItemError")
       ELSE /\ items' = [items EXCEPT ![h] = Item_remove_fields(items[h])]
            /\ contents' = [contents EXCEPT ![items[h].uuid] = <<>>]
            /\ files' = [files EXCEPT ![items[h].uuid] = <<>>]
            /\ written' = [written EXCEPT ![items[h].uuid] = "remove"]
            /\ lastCall' = Call("remove", h, items[h].uuid, TRUE, "",
                                <<items[h]>>)
            /\ everRemoved' = everRemoved \cup {items[h].uuid}
            /\ UNCHANGED <<ctorUuid, lastSaved>>

\* item.remove()
ItemRemove(h, now) ==
    /\ h \in Handles
    /\ Step
    /\ IF items[h].store = NoStore
       THEN Reject("remove", h, "UnsavedItemError")
       ELSE /\ DoSaveItem("remove", h, Item_remove_fields(items[h]), now)
            /\ everRemoved' = everRemoved \cup {items[h].uuid}
            /\ UNCHANGED ctorUuid

\* store.loadItem(uuid); the caller keeps the item it gets
StoreLoadItem(uuid) ==
    LET r == loadItem(TheVault, uuid)
    IN  /\ Step
        /\ r.err = "" => Len(items) < MaxItems
        /\ items' = items \o r.item
        /\ ctorUuid' = IF r.err = "" THEN Append(ctorUuid, uuid) ELSE ctorUuid
        /\ lastCall' = Call("loadItem",
                            IF r.err = "" THEN Len(items) + 1 ELSE 0,
                            uuid, r.err = "", r.err, <<>>)
        /\ UNCHANGED <<contents, files, everRemoved, written, lastSaved>>

\* store.listItems(opts); the caller keeps one of the items it gets
StoreListItems(includeTombstones) ==
    /\ Len(items) < MaxItems
    /\ Step
    /\ \E item \in listItems(TheVault, includeTombstones) :
        /\ items' = Append(items, item)
        /\ ctorUuid' = Append(ctorUuid, item.uuid)
        /\ lastCall' = Call("listItems", Len(items) + 1, item.uuid, TRUE, "",
                            <<>>)
    /\ UNCHANGED <<contents, files, everRemoved, written, lastSaved>>

\* fs.rm(vault.itemPath(uuid)): the item's file is deleted behind the
\* vault's back
RemoveItemFile(uuid) ==
    /\ files[uuid] # <<>>
    /\ Step
    /\ files' = [files EXCEPT ![uuid] = <<>>]
    /\ written' = [written EXCEPT ![uuid] = "rm"]
    /\ lastCall' = Call("rm", 0, uuid, TRUE, "", <<>>)
    /\ UNCHANGED <<items, ctorUuid, contents, everRemoved, lastSaved>>

Next ==
    \/ \E store \in {NoStore, Vault}, uuid \in UUIDs : NewItem(store, uuid)
    \/ \E h \in Handles, fv \in FieldValues : SetField(h, fv)
    \/ \E h \in Handles, content \in ContentValues : SetContent(h, content)
    \/ \E h \in Handles, now \in ClockValues : UpdateTimestamps(h, now)
    \/ \E h \in Handles, content \in ContentValues :
          UpdateOverviewFromContent(h, content)
    \/ \E h \in Handles, now \in ClockValues : ItemSaveTo(h, now)
    \/ \E h \in Handles, now \in ClockValues : ItemSave(h, now)
    \/ \E h \in Handles, now \in ClockValues : ItemRemove(h, now)
    \/ \E uuid \in UUIDs : StoreLoadItem(uuid)
    \/ \E includeTombstones \in BOOLEAN : StoreListItems(includeTombstones)
    \/ \E uuid \in UUIDs : RemoveItemFile(uuid)

Spec == Init /\ [][Next]_vars

----------------------------------------------------------------------------
(* generateRevisionId as a pure function: two items drawn from a bounded   *)
(* set of field values, and the computation of their revisions.            *)

TestRevision == TestVault.contents["U1"][1].revision

\* the members of contentMetadata in generateRevisionId
HashedFields ==
    {"uuid", "parentRevision", "title", "updatedAt", "createdAt", "typeName",
     "openContents", "folderUuid", "faveIndex", "trashed", "content"}

RevisionFieldValues ==
    { <<"uuid", "U2">>,
      <<"parentRevision", NoRevision>>, <<"parentRevision", TestRevision>>,
      <<"title", "">>, <<"title", "Facebook">>,
      <<"updatedAt", NoDate>>, <<"updatedAt", 1000>>,
      <<"createdAt", NoDate>>, <<"createdAt", 1000>>,
      <<"typeName", SECURE_NOTE>>, <<"typeName", TOMBSTONE>>,
      <<"openContents", "null">>, <<"openContents", "tags">>,
      <<"folderUuid", "F1">>,
      <<"faveIndex", "null">>, <<"faveIndex", "42">>,
      <<"trashed", TRUE>>,
      <<"content", <<FacebookContent>> >>,
      <<"store", NoStore>>, <<"store", Vault>>,
      <<"account", "john.doe">>,
      <<"locations", <<"mysite.com">> >> }

RevisionBaseItems ==
    { setContent(Item_constructor(NoStore, "U1"), ContentUtil_empty),
      setContent(fromOverview(TestVault.contents["U1"][1]), FacebookContent) }

field(item, name) ==
    CASE name = "uuid" -> <<item.uuid>>
      [] name = "parentRevision" -> <<item.parentRevision>>
      [] name = "title" -> <<item.title>>
      [] name = "updatedAt" -> <<item.updatedAt>>
      [] name = "createdAt" -> <<item.createdAt>>
      [] name = "typeName" -> <<item.typeName>>
      [] name = "openContents" -> <<item.openContents>>
      [] name = "folderUuid" -> <<item.folderUuid>>
      [] name = "faveIndex" -> <<item.faveIndex>>
      [] name = "trashed" -> <<item.trashed>>
      [] name = "content" -> item.content

DifferingFields(a, b) == { f \in HashedFields : field(a, f) # field(b, f) }

InitRevision ==
    /\ \E a \in RevisionBaseItems, fv1 \in RevisionFieldValues,
          fv2 \in RevisionFieldValues :
          items = <<a, assignField(assignField(a, fv1), fv2)>>
    /\ ctorUuid = <<items[1].uuid, items[2].uuid>>
    /\ contents = EmptyVault.contents
    /\ files = EmptyVault.files
    /\ written = [u \in UUIDs |-> "none"]
    /\ lastSaved = [u \in UUIDs |-> <<>>]
    /\ everRemoved = {}
    /\ lastCall = Call("init", 0, "", TRUE, "", <<>>)
    /\ nops = 0
    /\ storedKeys = NewVaultKeys
    /\ agent = UnlockedAgent
    /\ unlock = NoUnlock
    /\ crypto = NoCrypto
    /\ syncRevisions = NoSyncRevisions
    /\ inflight = <<>>
    /\ vaults = NoVaults
    /\ auth = NoAuth
    /\ listing = NoListing
    /\ repair = NoRepair
    /\ untilCall = NoUntil
    /\ seriesCall = NoSeries
    /\ cloning = NoCloning

\* item.revision = generateRevisionId({item, content})
GenerateRevisionId(h) ==
    /\ h \in Handles
    /\ items[h].revision # generateRevisionId(items[h], items[h].content[1])
    /\ items' = [items EXCEPT
                    ![h].revision =
                        generateRevisionId(items[h], items[h].content[1])]
    /\ lastCall' = Call("generateRevisionId", h, items[h].uuid, TRUE, "",
                        <<items[h]>>)
    /\ nops' = nops + 1
    /\ KeysUnchanged
    /\ OthersUnchanged
    /\ UNCHANGED <<ctorUuid, contents, files, everRemoved, written, lastSaved>>

NextRevision == \E h \in Handles : GenerateRevisionId(h)

SpecRevision == InitRevision /\ [][NextRevision]_vars

----------------------------------------------------------------------------
(* The codec as pure functions: a password, a second password, salts, a    *)
(* master key and item data drawn from bounded sets, then wrapped and      *)
(* unwrapped, encrypted and decrypted.                                     *)

PlainTexts == { toItemData(c) : c \in ContentValues }

\* the password as the key material of the item codec
passwordKey(password) == <<"password", password>>

InitCrypto ==
    /\ \E password \in Passwords, other \in Passwords, salt \in Salts,
          otherSalt \in Salts, keyId \in KeyIds, validationOf \in KeyIds,
          plainText \in PlainTexts :
          crypto = [op |-> "input", password |-> password, other |-> other,
                    salt |-> salt, otherSalt |-> otherSalt, keyId |-> keyId,
                    validationOf |-> validationOf, plainText |-> plainText,
                    encrypted |-> <<>>, result |-> Failed("none")]
    /\ items = <<>>
    /\ ctorUuid = <<>>
    /\ contents = EmptyVault.contents
    /\ files = EmptyVault.files
    /\ written = [u \in UUIDs |-> "none"]
    /\ lastSaved = [u \in UUIDs |-> <<>>]
    /\ everRemoved = {}
    /\ lastCall = Call("init", 0, "", TRUE, "", <<>>)
    /\ nops = 0
    /\ storedKeys = NewVaultKeys
    /\ agent = UnlockedAgent
    /\ unlock = NoUnlock
    /\ syncRevisions = NoSyncRevisions
    /\ inflight = <<>>
    /\ vaults = NoVaults
    /\ auth = NoAuth
    /\ listing = NoListing
    /\ repair = NoRepair
    /\ untilCall = NoUntil
    /\ seriesCall = NoSeries
    /\ cloning = NoCloning

CodecUnchanged ==
    UNCHANGED <<items, ctorUuid, contents, files, everRemoved, written,
                lastCall, nops, storedKeys, agent, unlock, lastSaved,
                syncRevisions, inflight, vaults, cloning, seriesCall, untilCall, repair, listing, auth>>

\* encryptedKey = encryptKey(keyFromPassword(password, salt, n), masterKey)
EncryptKey ==
    /\ crypto.op = "input"
    /\ crypto' = [crypto EXCEPT
                     !.op = "encryptKey",
                     !.encrypted =
                         << encryptKey(keyFromPassword(crypto.password,
                                                       crypto.salt, Iterations),
                                       MasterKey(crypto.keyId)) >>]
    /\ CodecUnchanged

\* decryptKey(keyFromPassword(other, otherSalt, n), encryptedKey.key,
\*            validation), the validation block being that of some key
DecryptKey ==
    /\ crypto.op = "encryptKey"
    /\ crypto' = [crypto EXCEPT
                     !.op = "decryptKey",
                     !.result =
                         decryptKey(keyFromPassword(crypto.other,
                                                    crypto.otherSalt,
                                                    Iterations),
                                    crypto.encrypted[1].key,
                                    validationBlock(
                                        MasterKey(crypto.validationOf)))]
    /\ CodecUnchanged

\* encrypted = encryptAgileKeychainItemData(password, plainText)
EncryptItemData ==
    /\ crypto.op = "input"
    /\ crypto' = [crypto EXCEPT
                     !.op = "encryptItemData",
                     !.encrypted =
                         << encryptAgileKeychainItemData(
                                passwordKey(crypto.password),
                                crypto.plainText, crypto.salt) >>]
    /\ CodecUnchanged

\* decryptAgileKeychainItemData(other, encrypted)
DecryptItemData ==
    /\ crypto.op = "encryptItemData"
    /\ crypto' = [crypto EXCEPT
                     !.op = "decryptItemData",
                     !.result =
                         decryptAgileKeychainItemData(
                             passwordKey(crypto.other), crypto.encrypted[1])]
    /\ CodecUnchanged

NextCrypto ==
    \/ EncryptKey
    \/ DecryptKey
    \/ EncryptItemData
    \/ DecryptItemData

SpecCrypto == InitCrypto /\ [][NextCrypto]_vars

----------------------------------------------------------------------------
(* Locking: a vault that is opened locked, unlocked with a password, used  *)
(* and locked again.  unlockStore() is a chain of promises; each callback  *)
(* of the chain is one step, and other operations run between the steps.   *)

\* the key files of the vaults: one key, two keys wrapped under the same
\* password, two keys wrapped under different passwords, no key at all
KeyFiles ==
    { <<>>,
      NewVaultKeys,
      << storedKey("K1", TestPassword, "salt1"),
         storedKey("K2", TestPassword, "salt2") >>,
      << storedKey("K1", TestPassword, "salt1"),
         storedKey("K2", "old-pass", "salt2") >> }

InitKeys ==
    /\ storedKeys \in KeyFiles
    /\ agent = NoKeys
    /\ unlock = NoUnlock
    /\ items = <<>>
    /\ ctorUuid = <<>>
    /\ contents = TestVault.contents
    /\ files = TestVault.files
    /\ written = [u \in UUIDs |->
                    IF TestVault.contents[u] = <<>> THEN "none" ELSE "save"]
    /\ lastSaved = [u \in UUIDs |->
                      IF TestVault.contents[u] = <<>> THEN <<>>
                      ELSE << givenFields(TestItem, TestItem.content) >>]
    /\ everRemoved = {}
    /\ lastCall = Call("init", 0, "", TRUE, "", <<>>)
    /\ nops = 0
    /\ crypto = NoCrypto
    /\ syncRevisions = NoSyncRevisions
    /\ inflight = <<>>
    /\ vaults = NoVaults
    /\ auth = NoAuth
    /\ listing = NoListing
    /\ repair = NoRepair
    /\ untilCall = NoUntil
    /\ seriesCall = NoSeries
    /\ cloning = NoCloning

\* the arguments of an unlockStore() call: the password and the keys that
\* store.listKeys() gave it
Unlocking(password, keys) == [password |-> password, keys |-> keys]

\* the fields that are edited and the clock reading of the saves
KeysFieldValues ==
    { <<"title", "Twitter">>, <<"faveIndex", "42">>, <<"trashed", TRUE>> }

KeysClock == {0}

ItemsUnchanged ==
    UNCHANGED <<items, ctorUuid, contents, files, everRemoved, written,
                lastSaved, nops>>

\* unlockStore(store, agent, password): the call, up to store.listKeys()
UnlockStore(password) ==
    /\ unlock.pc = "idle"
    /\ unlock' = [pc |-> "listKeys", password |-> password, keys |-> <<>>,
                  decrypted |-> <<>>]
    /\ UNCHANGED <<storedKeys, agent, lastCall>>
    /\ ItemsUnchanged
    /\ OthersUnchanged

\* the message of the error that unlockStore() throws for an empty key file
NoKeysSaved == "Unable to unlock store: No encryption keys have been saved"

\* variant: the keys are handed to decryptKeys() without a check
UnlockListKeys_noCheck ==
    /\ unlock.pc = "listKeys"
    /\ unlock' = [unlock EXCEPT !.pc = "decryptKeys", !.keys = storedKeys]
    /\ UNCHANGED <<storedKeys, agent, lastCall>>
    /\ ItemsUnchanged
    /\ OthersUnchanged

\* the callback of store.listKeys(): throws if there are no keys, else
\* calls key_agent.decryptKeys(keys, password)
UnlockListKeys ==
    /\ unlock.pc = "listKeys"
    /\ IF Len(storedKeys) = 0
       THEN /\ unlock' = NoUnlock
            /\ lastCall' = Call("unlock", 0, "", FALSE,
                                NoKeysSaved,
                                << Unlocking(unlock.password, storedKeys) >>)
       ELSE /\ unlock' = [unlock EXCEPT !.pc = "decryptKeys",
                                        !.keys = storedKeys]
            /\ UNCHANGED lastCall
    /\ UNCHANGED <<storedKeys, agent>>
    /\ ItemsUnchanged
    /\ OthersUnchanged

\* variant: a rejection of decryptKeys() is caught and taken for no keys
UnlockDecryptKeys_ignoreError ==
    /\ unlock.pc = "decryptKeys"
    /\ unlock' = [unlock EXCEPT
                     !.pc = "addKeys",
                     !.decrypted = decryptKeys(unlock.keys,
                                               unlock.password).keys]
    /\ UNCHANGED <<storedKeys, agent, lastCall>>
    /\ ItemsUnchanged
    /\ OthersUnchanged

\* key_agent.decryptKeys() settles: its rejection rejects unlockStore(),
\* its keys are handed to the next callback
UnlockDecryptKeys ==
    /\ unlock.pc = "decryptKeys"
    /\ LET r == decryptKeys(unlock.keys, unlock.password)
       IN  IF r.err # ""
           THEN /\ unlock' = NoUnlock
                /\ lastCall' = Call("unlock", 0, "", FALSE, r.err,
                                    << Unlocking(unlock.password,
                                                 unlock.keys) >>)
           ELSE /\ unlock' = [unlock EXCEPT !.pc = "addKeys",
                                            !.decrypted = r.keys]
                /\ UNCHANGED lastCall
    /\ UNCHANGED <<storedKeys, agent>>
    /\ ItemsUnchanged
    /\ OthersUnchanged

RECURSIVE addKeys(_, _)
\* keys.forEach(key => agent.addKey(key.id, key.key))
addKeys(table, keys) ==
    IF keys = <<>> THEN table
    ELSE addKeys(addKey(table, keys[1].id, keys[1].key), Tail(keys))

\* variant: the keys are added one by one, each after the one before it
\* has been added
UnlockAddKeys_oneByOne ==
    /\ unlock.pc = "addKeys"
    /\ agent' = addKey(agent, unlock.decrypted[1].id, unlock.decrypted[1].key)
    /\ unlock' = IF Len(unlock.decrypted) = 1
                 THEN [unlock EXCEPT !.pc = "all"]
                 ELSE [unlock EXCEPT !.decrypted = Tail(unlock.decrypted)]
    /\ lastCall' = Call("addKey", 0, "", TRUE, "", <<agent>>)
    /\ UNCHANGED storedKeys
    /\ ItemsUnchanged
    /\ OthersUnchanged

\* variant: only the first of the decrypted keys is added
UnlockAddKeys_firstOnly ==
    /\ unlock.pc = "addKeys"
    /\ agent' = addKey(agent, unlock.decrypted[1].id, unlock.decrypted[1].key)
    /\ unlock' = [unlock EXCEPT !.pc = "all"]
    /\ lastCall' = Call("addKey", 0, "", TRUE, "", <<agent>>)
    /\ UNCHANGED storedKeys
    /\ ItemsUnchanged
    /\ OthersUnchanged

\* the callback of decryptKeys(): every key is added to the agent, then
\* Promise.all() waits for the additions
UnlockAddKeys ==
    /\ unlock.pc = "addKeys"
    /\ agent' = addKeys(agent, unlock.decrypted)
    /\ unlock' = [unlock EXCEPT !.pc = "all"]
    /\ lastCall' = Call("addKey", 0, "", TRUE, "", <<agent>>)
    /\ UNCHANGED storedKeys
    /\ ItemsUnchanged
    /\ OthersUnchanged

\* variant: a successful unlock rewrites the key file, keeping only the
\* key generations that the password unwrapped
UnlockResolve_pruneKeys ==
    /\ unlock.pc = "all"
    /\ unlock' = NoUnlock
    /\ lastCall' = Call("unlock", 0, "", TRUE, "",
                        << Unlocking(unlock.password, unlock.keys) >>)
    /\ storedKeys' =
          SelectSeq(storedKeys,
                    LAMBDA k : decryptKey(keyFromPassword(unlock.password,
                                                          k.salt, k.iterations),
                                          k.data, k.validation).err = "")
    /\ UNCHANGED agent
    /\ ItemsUnchanged
    /\ OthersUnchanged

\* Promise.all(savedKeys) resolves and with it unlockStore()
UnlockResolve ==
    /\ unlock.pc = "all"
    /\ unlock' = NoUnlock
    /\ lastCall' = Call("unlock", 0, "", TRUE, "",
                        << Unlocking(unlock.password, unlock.keys) >>)
    /\ UNCHANGED <<storedKeys, agent>>
    /\ ItemsUnchanged
    /\ OthersUnchanged

\* agent.forgetKeys(): the store is locked; what was saved so far is on
\* storage only
ForgetKeys ==
    /\ agent' = forgetKeys(agent)
    /\ lastCall' = Call("forgetKeys", 0, "", TRUE, "", <<agent>>)
    /\ lastSaved' = [u \in UUIDs |->
                       IF lastSaved[u] = <<>> THEN <<>>
                       ELSE << [lastSaved[u][1] EXCEPT !.closed = TRUE] >>]
    /\ UNCHANGED <<storedKeys, unlock>>
    /\ UNCHANGED <<items, ctorUuid, contents, files, everRemoved, written,
                   nops>>
    /\ OthersUnchanged

\* item.getContent()
ItemGetContent(h) ==
    /\ h \in Handles
    /\ LET r == getContent(TheVault, items[h])
       IN  /\ items' = IF items[h].content = <<>> /\ items[h].store = NoStore
                       THEN [items EXCEPT ![h].content = r.value]
                       ELSE items
           /\ lastCall' = Call("getContent", h, items[h].uuid, r.err = "",
                               r.err, r.value)
    /\ UNCHANGED <<ctorUuid, contents, files, everRemoved, written,
                   lastSaved, nops>>
    /\ KeysUnchanged
    /\ OthersUnchanged

\* item.getRawDecryptedData()
ItemGetRawDecryptedData(h) ==
    /\ h \in Handles
    /\ LET r == getRawDecryptedData(TheVault, items[h])
       IN  lastCall' = Call("getRawDecryptedData", h, items[h].uuid,
                            r.err = "", r.err, r.value)
    /\ ItemsUnchanged
    /\ KeysUnchanged
    /\ OthersUnchanged

NextKeys ==
    \/ \E password \in Passwords : UnlockStore(password)
    \/ UnlockListKeys
    \/ UnlockDecryptKeys
    \/ UnlockAddKeys
    \/ UnlockResolve
    \/ ForgetKeys
    \/ \E h \in Handles : ItemGetContent(h)
    \/ \E h \in Handles : ItemGetRawDecryptedData(h)
    \/ \E h \in Handles, fv \in KeysFieldValues :
          nops < MaxKeyOps /\ SetField(h, fv)
    \/ \E h \in Handles, content \in ContentValues :
          nops < MaxKeyOps /\ SetContent(h, content)
    \/ \E h \in Handles, now \in KeysClock :
          nops < MaxKeyOps /\ ItemSave(h, now)
    \/ \E uuid \in UUIDs : nops < MaxKeyOps /\ StoreLoadItem(uuid)
    \/ \E includeTombstones \in BOOLEAN :
          nops < MaxKeyOps /\ StoreListItems(includeTombstones)

SpecKeys == InitKeys /\ [][NextKeys]_vars

----------------------------------------------------------------------------
(* Items without a store: items that are constructed without one, edited,  *)
(* and on which the operations that need a store are called.               *)

NextUnsaved ==
    \/ \E uuid \in UUIDs : NewItem(NoStore, uuid)
    \/ \E h \in Handles, fv \in FieldValues : SetField(h, fv)
    \/ \E h \in Handles, content \in ContentValues : SetContent(h, content)
    \/ \E h \in Handles, now \in ClockValues : ItemSave(h, now)
    \/ \E h \in Handles, now \in ClockValues : ItemRemove(h, now)
    \/ \E h \in Handles : ItemGetRawDecryptedData(h)

SpecUnsaved == Init /\ [][NextUnsaved]_vars

----------------------------------------------------------------------------
(* Sync metadata: the last-synced revisions that a store keeps for the     *)
(* stores it is synced with, one row per store and item.                   *)

RevisionPairs ==
    { [local |-> "L1", external |-> "E1"],
      [local |-> "L2", external |-> "E1"],
      [local |-> "L2", external |-> "E2"] }

\* the key of the row of an item and a store
syncKey(uuid, storeID) == <<storeID, uuid>>

\* variant: the row is keyed by the item alone
setLastSyncedRevision_keyedByItem(table, uuid, storeID, revision) ==
    { row \in table : row.key[2] # uuid }
        \cup { [key |-> syncKey(uuid, storeID), value |-> revision] }

\* SyncableStore.setLastSyncedRevision(item, storeID, revision)
setLastSyncedRevision(table, uuid, storeID, revision) ==
    { row \in table : row.key # syncKey(uuid, storeID) }
        \cup { [key |-> syncKey(uuid, storeID), value |-> revision] }

\* SyncableStore.getLastSyncedRevision(uuid, storeID)
getLastSyncedRevision(table, uuid, storeID) ==
    LET rows == { row \in table : row.key = syncKey(uuid, storeID) }
    IN  IF rows = {} THEN <<>> ELSE << (CHOOSE row \in rows : TRUE).value >>

\* SyncableStore.lastSyncRevisions(storeID): item ID -> revision pair
lastSyncRevisions(table, storeID) ==
    LET rows == { row \in table : row.key[1] = storeID }
    IN  [ uuid \in { row.key[2] : row \in rows } |->
            (CHOOSE row \in rows : row.key[2] = uuid).value ]

InitSync ==
    /\ syncRevisions = NoSyncRevisions
    /\ items = <<>>
    /\ ctorUuid = <<>>
    /\ contents = TestVault.contents
    /\ files = TestVault.files
    /\ written = [u \in UUIDs |-> "none"]
    /\ lastSaved = [u \in UUIDs |-> <<>>]
    /\ everRemoved = {}
    /\ lastCall = Call("init", 0, "", TRUE, "", <<>>)
    /\ nops = 0
    /\ storedKeys = NewVaultKeys
    /\ agent = UnlockedAgent
    /\ unlock = NoUnlock
    /\ crypto = NoCrypto
    /\ inflight = <<>>
    /\ vaults = NoVaults
    /\ auth = NoAuth
    /\ listing = NoListing
    /\ repair = NoRepair
    /\ untilCall = NoUntil
    /\ seriesCall = NoSeries
    /\ cloning = NoCloning

SyncUnchanged ==
    UNCHANGED <<items, ctorUuid, contents, files, everRemoved, written,
                nops, storedKeys, agent, unlock, lastSaved, crypto,
                inflight, vaults, cloning, seriesCall, untilCall, repair, listing, auth>>

SetLastSyncedRevision(uuid, storeID, revision) ==
    /\ syncRevisions' =
          [table |-> setLastSyncedRevision(syncRevisions.table, uuid,
                                           storeID, revision),
           recorded |-> [syncRevisions.recorded EXCEPT
                            ![<<uuid, storeID>>] = <<revision>>]]
    /\ lastCall' = Call("setLastSyncedRevision", 0, uuid, TRUE, "",
                        << [storeID |-> storeID,
                            before |-> syncRevisions.recorded] >>)
    /\ SyncUnchanged

GetLastSyncedRevision(uuid, storeID) ==
    /\ lastCall' = Call("getLastSyncedRevision", 0, uuid, TRUE, "",
                        getLastSyncedRevision(syncRevisions.table, uuid,
                                              storeID))
    /\ UNCHANGED syncRevisions
    /\ SyncUnchanged

LastSyncRevisions(storeID) ==
    /\ lastCall' = Call("lastSyncRevisions", 0, "", TRUE, "",
                        << lastSyncRevisions(syncRevisions.table, storeID) >>)
    /\ UNCHANGED syncRevisions
    /\ SyncUnchanged

NextSync ==
    \/ \E uuid \in UUIDs, storeID \in StoreIds, revision \in RevisionPairs :
          SetLastSyncedRevision(uuid, storeID, revision)
    \/ \E uuid \in UUIDs, storeID \in StoreIds :
          GetLastSyncedRevision(uuid, storeID)
    \/ \E storeID \in StoreIds : LastSyncRevisions(storeID)

SpecSync == InitSync /\ [][NextSync]_vars

----------------------------------------------------------------------------
(* Concurrent saves: several items saved to one vault at once.  A save     *)
(* writes the item's file and queues an update of the index; the queued    *)
(* updates are merged into the index one batch at a time, each batch with  *)
(* a read and a write of the index file.                                   *)

\* no save is in flight
NoSaves == [saves |-> <<>>, queue |-> <<>>, flush |-> <<>>]

\* the save of an item that has not started
NotStarted == [pc |-> "ready", file |-> <<>>, overview |-> <<>>,
               fileDone |-> FALSE, indexDone |-> FALSE]

\* createTestLoginItem(i): a new login item with content, not yet in a store
createTestLoginItem(uuid) ==
    setContent([Item_constructor(NoStore, uuid) EXCEPT !.title = "Facebook"],
               FacebookContent)

RECURSIVE SetToSeq(_)
SetToSeq(S) ==
    IF S = {} THEN <<>>
    ELSE LET x == CHOOSE y \in S : TRUE IN <<x>> \o SetToSeq(S \ {x})

InitSaves ==
    /\ \E uuids \in SUBSET UUIDs :
          /\ uuids # {}
          /\ Cardinality(uuids) <= MaxItems
          /\ items = [i \in 1..Cardinality(uuids) |->
                        createTestLoginItem(SetToSeq(uuids)[i])]
          /\ ctorUuid = SetToSeq(uuids)
          /\ inflight = [NoSaves EXCEPT
                            !.saves = [i \in 1..Cardinality(uuids) |->
                                          NotStarted]]
    /\ \E v \in {EmptyVault, TestVault} :
          /\ contents = v.contents
          /\ files = v.files
          /\ written = [u \in UUIDs |->
                          IF v.contents[u] = <<>> THEN "none" ELSE "save"]
          /\ lastSaved = [u \in UUIDs |->
                            IF v.contents[u] = <<>> THEN <<>>
                            ELSE << givenFields(TestItem, TestItem.content) >>]
    /\ everRemoved = {}
    /\ lastCall = Call("init", 0, "", TRUE, "", <<>>)
    /\ nops = 0
    /\ storedKeys = NewVaultKeys
    /\ agent = UnlockedAgent
    /\ unlock = NoUnlock
    /\ crypto = NoCrypto
    /\ syncRevisions = NoSyncRevisions
    /\ vaults = NoVaults
    /\ auth = NoAuth
    /\ listing = NoListing
    /\ repair = NoRepair
    /\ untilCall = NoUntil
    /\ seriesCall = NoSeries
    /\ cloning = NoCloning

SavesUnchanged ==
    UNCHANGED <<ctorUuid, everRemoved, nops, storedKeys, agent, unlock,
                crypto, syncRevisions, vaults, cloning, seriesCall, untilCall, repair, listing, auth>>

\* item.saveTo(vault), up to the point where the vault waits for storage:
\* the item is stamped and gets its revision, the write of its file starts
\* and the update of the index is queued
SaveItemBegin(h, now) ==
    /\ h \in Handles
    /\ inflight.saves[h].pc = "ready"
    /\ LET r == saveItem(TheVault, [items[h] EXCEPT !.store = Vault], now)
       IN  /\ r.ok
           /\ items' = [items EXCEPT ![h] = r.item]
           /\ inflight' = [inflight EXCEPT
                              !.saves[h] = [pc |-> "saving",
                                            file |-> r.files[r.item.uuid],
                                            overview |-> r.contents[r.item.uuid],
                                            fileDone |-> FALSE,
                                            indexDone |-> FALSE],
                              !.queue = Append(@, h)]
    /\ UNCHANGED <<contents, files, written, lastSaved, lastCall>>
    /\ SavesUnchanged

\* the write of the item's file completes
SaveWriteFile(h) ==
    /\ h \in Handles
    /\ inflight.saves[h].pc = "saving"
    /\ ~inflight.saves[h].fileDone
    /\ files' = [files EXCEPT ![items[h].uuid] = inflight.saves[h].file]
    /\ inflight' = [inflight EXCEPT !.saves[h].fileDone = TRUE]
    /\ UNCHANGED <<items, contents, written, lastSaved, lastCall>>
    /\ SavesUnchanged

\* variant: every save reads the index for itself, also while another
\* update of the index is under way
IndexRead_unserialised ==
    /\ inflight.queue # <<>>
    /\ inflight' = [inflight EXCEPT
                       !.queue = Tail(@),
                       !.flush = Append(@, [snapshot |-> contents,
                                            batch |-> << inflight.queue[1] >>])]
    /\ UNCHANGED <<items, contents, files, written, lastSaved, lastCall>>
    /\ SavesUnchanged

\* the queued updates are taken as one batch and the index file is read
IndexRead ==
    /\ inflight.queue # <<>>
    /\ inflight.flush = <<>>
    /\ inflight' = [inflight EXCEPT
                       !.queue = <<>>,
                       !.flush = << [snapshot |-> contents,
                                     batch |-> inflight.queue] >>]
    /\ UNCHANGED <<items, contents, files, written, lastSaved, lastCall>>
    /\ SavesUnchanged

RECURSIVE mergeIndex(_, _, _)
\* the index that was read, with the entries of the batch replaced
mergeIndex(index, saves, batch) ==
    IF batch = <<>> THEN index
    ELSE mergeIndex([index EXCEPT
                        ![saves[batch[1]].overview[1].uuid] =
                            saves[batch[1]].overview],
                    saves, Tail(batch))

\* the merged index is written and the updates of the batch are done
IndexWrite ==
    /\ inflight.flush # <<>>
    /\ LET flush == inflight.flush[1]
           inBatch == { flush.batch[i] : i \in 1..Len(flush.batch) }
       IN  /\ contents' = mergeIndex(flush.snapshot, inflight.saves,
                                     flush.batch)
           /\ inflight' = [inflight EXCEPT
                              !.flush = Tail(@),
                              !.saves = [h \in Handles |->
                                           IF h \in inBatch
                                           THEN [@[h] EXCEPT
                                                    !.indexDone = TRUE]
                                           ELSE @[h]]]
    /\ UNCHANGED <<items, files, written, lastSaved, lastCall>>
    /\ SavesUnchanged

\* the file is written and the index updated: saveTo() resolves
SaveItemResolve(h) ==
    /\ h \in Handles
    /\ inflight.saves[h].pc = "saving"
    /\ inflight.saves[h].fileDone
    /\ inflight.saves[h].indexDone
    /\ inflight' = [inflight EXCEPT !.saves[h].pc = "done"]
    /\ written' = [written EXCEPT ![items[h].uuid] = "save"]
    /\ lastSaved' = [lastSaved EXCEPT ![items[h].uuid] =
                        << givenFields(items[h], items[h].content) >>]
    /\ lastCall' = Call("saveTo", h, items[h].uuid, TRUE, "", <<>>)
    /\ UNCHANGED <<items, contents, files>>
    /\ SavesUnchanged

NextSaves ==
    \/ \E h \in Handles, now \in ClockValues : SaveItemBegin(h, now)
    \/ \E h \in Handles : SaveWriteFile(h)
    \/ IndexRead
    \/ IndexWrite
    \/ \E h \in Handles : SaveItemResolve(h)

SpecSaves == InitSaves /\ [][NextSaves]_vars

----------------------------------------------------------------------------
(* Vaults: vault directories on a file system, created, opened by several  *)
(* Vault instances, unlocked, locked, saved to, and given a new password.   *)
(* A Vault instance has a key agent of its own; the item that its caller    *)
(* holds carries the content that was decrypted for it.                    *)

MaxVaults == 2      \* Vault instances open at once
MaxVaultOps == 5    \* operations on vaults in one run

\* the passwords that vaults are created with and changed to
VaultPasswords == {TestPassword, "old-pass"}

Hints == {"hint", "new-hint"}

\* the uuid of the item that the callers of the vaults work with
VaultItem == "U1"

\* variant: the vaults use one key agent, that of the vault opened first
newKeyAgent_shared(agents) ==
    IF agents = <<>> THEN [agents |-> <<NoKeys>>, ref |-> 1]
    ELSE [agents |-> agents, ref |-> 1]

\* new SimpleKeyAgent(): the agent that a Vault makes for itself
newKeyAgent(agents) ==
    [agents |-> Append(agents, NoKeys), ref |-> Len(agents) + 1]

\* new Vault(fs, path)
Vault_constructor(vs, path) ==
    LET made == newKeyAgent(vs.agents)
    IN  [vs EXCEPT
            !.agents = made.agents,
            !.open = Append(@, [path |-> path, agent |-> made.ref,
                                item |-> <<>>])]

\* variant: the directory of an existing vault is written over
createVault_overwrite(fs, path, password, hint) ==
    [err |-> "",
     fs |-> [fs EXCEPT ![path] =
               << [keys |-> << storedKey(ItemKeyID, password, ItemSalt) >>,
                   hint |-> hint,
                   contents |-> EmptyVault.contents,
                   files |-> EmptyVault.files] >>]]

\* Vault.createVault(fs, path, password, hint, keyIterations): makes the
\* directory, which fails if it exists, and writes the key file and the hint
createVault(fs, path, password, hint) ==
    IF fs[path] # <<>> THEN [err |-> "VfsError", fs |-> fs]
    ELSE [err |-> "",
          fs |-> [fs EXCEPT ![path] =
                    << [keys |-> << storedKey(ItemKeyID, password, ItemSalt) >>,
                        hint |-> hint,
                        contents |-> EmptyVault.contents,
                        files |-> EmptyVault.files] >>]]

\* the key generation with the master key wrapped under a new password
rewrapKey(k, password) ==
    LET wrapped == encryptKey(keyFromPassword(password, ItemSalt, Iterations),
                              k.key)
    IN  [identifier |-> k.id, data |-> wrapped.key,
         validation |-> wrapped.validation, salt |-> ItemSalt,
         iterations |-> Iterations]

\* variant: the hint is saved before the old password has been verified
changePassword_hintFirst(dir, oldPass, newPass, newPassHint) ==
    LET r == decryptKeys(dir.keys, oldPass)
    IN  IF r.err # ""
        THEN [err |-> r.err, dir |-> [dir EXCEPT !.hint = newPassHint]]
        ELSE [err |-> "",
              dir |-> [dir EXCEPT
                          !.keys = [i \in 1..Len(r.keys) |->
                                      rewrapKey(r.keys[i], newPass)],
                          !.hint = newPassHint]]

\* Vault.changePassword(oldPass, newPass, newPassHint): the keys are
\* decrypted with the old password, wrapped under the new one and saved
\* together with the hint
changePassword(dir, oldPass, newPass, newPassHint) ==
    LET r == decryptKeys(dir.keys, oldPass)
    IN  IF r.err # "" THEN [err |-> r.err, dir |-> dir]
        ELSE [err |-> "",
              dir |-> [dir EXCEPT
                          !.keys = [i \in 1..Len(r.keys) |->
                                      rewrapKey(r.keys[i], newPass)],
                          !.hint = newPassHint]]

\* Vault.passwordHint()
passwordHint(dir) == dir.hint

\* the open Vault instances
VaultIds == 1..Len(vaults.open)

\* the directory of an open vault
DirOf(v) == vaults.fs[vaults.open[v].path][1]

\* the key agent of an open vault
AgentOf(v) == vaults.agents[vaults.open[v].agent]

\* an open vault as a store: its index, its item files, its key agent
StoreOf(v) ==
    [contents |-> DirOf(v).contents, files |-> DirOf(v).files,
     agent |-> AgentOf(v)]

\* the directory of the test vault: one login item, the password 'logMEin'
TestVaultDir ==
    [keys |-> NewVaultKeys, hint |-> "hint",
     contents |-> TestVault.contents, files |-> TestVault.files]

InitVaults ==
    /\ vaults = [NoVaults EXCEPT
                    !.fs["/a.agilekeychain"] = << TestVaultDir >>,
                    !.password["/a.agilekeychain"] = TestPassword]
    /\ items = <<>>
    /\ ctorUuid = <<>>
    /\ contents = EmptyVault.contents
    /\ files = EmptyVault.files
    /\ written = [u \in UUIDs |-> "none"]
    /\ lastSaved = [u \in UUIDs |-> <<>>]
    /\ everRemoved = {}
    /\ lastCall = Call("init", 0, "", TRUE, "", <<>>)
    /\ nops = 0
    /\ storedKeys = NewVaultKeys
    /\ agent = UnlockedAgent
    /\ unlock = NoUnlock
    /\ crypto = NoCrypto
    /\ syncRevisions = NoSyncRevisions
    /\ inflight = <<>>
    /\ cloning = NoCloning
    /\ seriesCall = NoSeries
    /\ untilCall = NoUntil
    /\ repair = NoRepair
    /\ listing = NoListing
    /\ auth = NoAuth

VaultStep ==
    /\ nops < MaxVaultOps
    /\ nops' = nops + 1
    /\ UNCHANGED <<items, ctorUuid, contents, files, everRemoved, written,
                   storedKeys, agent, unlock, lastSaved, crypto,
                   syncRevisions, inflight, cloning, seriesCall, untilCall, repair, listing, auth>>

\* Vault.createVault(fs, path, password, hint, iterations)
CreateVault(path, password, hint) ==
    LET r == createVault(vaults.fs, path, password, hint)
    IN  /\ VaultStep
        /\ r.err = "" => Len(vaults.open) < MaxVaults
        /\ vaults' =
              IF r.err # "" THEN [vaults EXCEPT !.fs = r.fs]
              ELSE Vault_constructor(
                       [vaults EXCEPT !.fs = r.fs,
                                      !.password[path] = password],
                       path)
        /\ lastCall' = Call("createVault", 0, path, r.err = "", r.err,
                            << [password |-> password, hint |-> hint] >>)

\* new Vault(fs, path) on the directory of a vault
OpenVault(path) ==
    /\ VaultStep
    /\ vaults.fs[path] # <<>>
    /\ Len(vaults.open) < MaxVaults
    /\ vaults' = Vault_constructor(vaults, path)
    /\ lastCall' = Call("openVault", Len(vaults.open) + 1, path, TRUE, "",
                        <<>>)

\* vault.unlock(password)
VaultUnlock(v, password) ==
    LET r == decryptKeys(DirOf(v).keys, password)
    IN  /\ v \in VaultIds
        /\ VaultStep
        /\ vaults' = IF r.err # "" THEN vaults
                      ELSE [vaults EXCEPT
                               !.agents[vaults.open[v].agent] =
                                   addKeys(@, r.keys)]
        /\ lastCall' = Call("unlock", v, vaults.open[v].path, r.err = "",
                            r.err, << [password |-> password] >>)

\* vault.lock(): the agent of the vault forgets its keys
VaultLock(v) ==
    /\ v \in VaultIds
    /\ VaultStep
    /\ vaults' = [vaults EXCEPT
                     !.agents[vaults.open[v].agent] = forgetKeys(@)]
    /\ lastCall' = Call("lock", v, vaults.open[v].path, TRUE, "", <<>>)

\* vault.loadItem(uuid); the caller keeps the item with its content
VaultLoadItem(v) ==
    LET r == loadItem(StoreOf(v), VaultItem)
    IN  /\ v \in VaultIds
        /\ VaultStep
        /\ vaults' = IF r.err # "" THEN vaults
                      ELSE [vaults EXCEPT !.open[v].item = r.item]
        /\ lastCall' = Call("loadItem", v, vaults.open[v].path, r.err = "",
                            r.err, <<>>)

\* item.setContent(content); item.save() on the item of the vault's caller,
\* a new item if the caller holds none
VaultSaveItem(v, content) ==
    LET held == IF vaults.open[v].item = <<>>
                THEN Item_constructor(Vault, VaultItem)
                ELSE vaults.open[v].item[1]
        r == saveItem(StoreOf(v), setContent(held, content), 0)
    IN  /\ v \in VaultIds
        /\ VaultStep
        /\ vaults' = [vaults EXCEPT
                         !.fs[vaults.open[v].path] =
                             << [DirOf(v) EXCEPT !.contents = r.contents,
                                                 !.files = r.files] >>,
                         !.open[v].item = << r.item >>]
        /\ lastCall' = Call("save", v, vaults.open[v].path, r.ok, r.err,
                            <<>>)

\* vault.changePassword(oldPass, newPass, newPassHint)
ChangePassword(v, oldPass, newPass, newPassHint) ==
    LET r == changePassword(DirOf(v), oldPass, newPass, newPassHint)
    IN  /\ v \in VaultIds
        /\ VaultStep
        /\ vaults' = [vaults EXCEPT
                         !.fs[vaults.open[v].path] = << r.dir >>,
                         !.password[vaults.open[v].path] =
                             IF r.err = "" THEN newPass ELSE @]
        /\ lastCall' = Call("changePassword", v, vaults.open[v].path,
                            r.err = "", r.err,
                            << [oldPass |-> oldPass, newPass |-> newPass,
                                hint |-> newPassHint] >>)

\* vault.passwordHint()
PasswordHint(v) ==
    /\ v \in VaultIds
    /\ VaultStep
    /\ UNCHANGED vaults
    /\ lastCall' = Call("passwordHint", v, vaults.open[v].path, TRUE, "",
                        << passwordHint(DirOf(v)) >>)

NextVaults ==
    \/ \E path \in Paths, password \in VaultPasswords, hint \in Hints :
          CreateVault(path, password, hint)
    \/ \E path \in Paths : OpenVault(path)
    \/ \E v \in VaultIds, password \in Passwords : VaultUnlock(v, password)
    \/ \E v \in VaultIds : VaultLock(v)
    \/ \E v \in VaultIds : VaultLoadItem(v)
    \/ \E v \in VaultIds, content \in ContentValues :
          VaultSaveItem(v, content)
    \/ \E v \in VaultIds, oldPass \in Passwords,
          newPass \in VaultPasswords, hint \in Hints :
          ChangePassword(v, oldPass, newPass, hint)
    \/ \E v \in VaultIds : PasswordHint(v)

SpecVaults == InitVaults /\ [][NextVaults]_vars

----------------------------------------------------------------------------
(* cloneItem *)

\* In this part an array or a content object is a cell of cloning.heap and
\* the fields that hold one (item.locations, item.content, the content of
\* an ItemAndContent) hold the index of its cell, so that two fields can
\* share one object and a change made through one is seen through the other.

MaxLocations == 2   \* longest locations array that callers build

\* clone(value) of the 'clone' package: a deep copy, a new object with the
\* same value
clone(heap, ref) == [heap |-> Append(heap, heap[ref]), ref |-> Len(heap) + 1]

cloneItem(heap, itemAndContent, uuid, store) ==
    LET item == itemAndContent.item
        clonedLocations == clone(heap, item.locations)
        clonedContent == clone(clonedLocations.heap, itemAndContent.content)
        clonedItem ==
            [Item_constructor(store, uuid) EXCEPT
                !.parentRevision = item.revision,
                !.folderUuid = item.uuid,
                !.faveIndex = item.faveIndex,
                !.trashed = item.trashed,
                !.updatedAt = item.updatedAt,
                !.createdAt = item.createdAt,
                !.typeName = item.typeName,
                !.title = item.title,
                !.openContents = item.openContents,
                !.locations = clonedLocations.ref,
                !.account = item.account,
                !.content = <<clonedContent.ref>>]
    IN  [heap |-> clonedContent.heap,
         item |-> clonedItem,
         content |-> clonedContent.ref]

\* the items that are cloned: saved or not, in a folder or not; the
\* locations array is cell 1 and the content object is cell 2
SourceItems ==
    { [Item_constructor(store, "U1") EXCEPT
          !.revision = revision,
          !.parentRevision = IF revision = NoRevision THEN NoRevision
                             ELSE <<"R0">>,
          !.folderUuid = folderUuid,
          !.faveIndex = IF trashed THEN "undefined" ELSE "42",
          !.trashed = trashed,
          !.updatedAt = IF revision = NoRevision THEN NoDate ELSE 1000,
          !.createdAt = IF revision = NoRevision THEN NoDate ELSE 500,
          !.title = title,
          !.account = IF title = "" THEN "undefined" ELSE "john.doe",
          !.locations = 1,
          !.content = IF loaded THEN <<2>> ELSE <<>>] :
        store \in {NoStore, Vault},
        revision \in {NoRevision, <<"R1">>},
        folderUuid \in {"", "F1"},
        trashed \in BOOLEAN,
        title \in {"", "Facebook"},
        loaded \in BOOLEAN }

InitClone ==
    /\ items = <<>>
    /\ ctorUuid = <<>>
    /\ contents = EmptyVault.contents
    /\ files = EmptyVault.files
    /\ written = [u \in UUIDs |-> "none"]
    /\ lastSaved = [u \in UUIDs |-> <<>>]
    /\ everRemoved = {}
    /\ lastCall = Call("init", 0, "", TRUE, "", <<>>)
    /\ nops = 0
    /\ storedKeys = NewVaultKeys
    /\ agent = UnlockedAgent
    /\ unlock = NoUnlock
    /\ crypto = NoCrypto
    /\ syncRevisions = NoSyncRevisions
    /\ inflight = <<>>
    /\ vaults = NoVaults
    /\ auth = NoAuth
    /\ listing = NoListing
    /\ repair = NoRepair
    /\ untilCall = NoUntil
    /\ seriesCall = NoSeries
    /\ \E item \in SourceItems, content \in ContentValues :
          cloning = [heap |-> << IF content.urls = <<>> THEN <<>>
                                ELSE <<content.urls[1].url>>,
                                content >>,
                     source |-> << [item |-> item, content |-> 2] >>,
                     result |-> <<>>]

CloneUnchanged ==
    UNCHANGED <<items, ctorUuid, contents, files, everRemoved, written, nops,
                storedKeys, agent, unlock, lastSaved, crypto, syncRevisions,
                inflight, vaults, seriesCall, untilCall, repair, listing, auth>>

\* cloneItem(itemAndContent, uuid, store)
CloneItem(uuid, store) ==
    /\ cloning.result = <<>>
    /\ LET r == cloneItem(cloning.heap, cloning.source[1], uuid, store)
       IN  /\ cloning' = [cloning EXCEPT
                             !.heap = r.heap,
                             !.result = << [item |-> r.item,
                                           content |-> r.content] >>]
           /\ lastCall' = Call("cloneItem", 0, uuid, TRUE, "", <<store>>)
    /\ CloneUnchanged

\* the source or the clone, by name
Copy(which) ==
    IF which = "source" THEN cloning.source[1] ELSE cloning.result[1]

\* a caller's item.locations.push(url), on the source or on the clone
PushLocation(which, url) ==
    /\ cloning.result # <<>>
    /\ LET ref == Copy(which).item.locations
       IN  /\ Len(cloning.heap[ref]) < MaxLocations
           /\ cloning' = [cloning EXCEPT !.heap[ref] = Append(@, url)]
           /\ lastCall' = Call("push", 0, which, TRUE, "", <<cloning.heap>>)
    /\ CloneUnchanged

\* a caller's content.notes = notes, on the content of the source or of
\* the clone
EditContent(which, notes) ==
    /\ cloning.result # <<>>
    /\ LET ref == Copy(which).content
       IN  /\ cloning.heap[ref].notes # notes
           /\ cloning' = [cloning EXCEPT !.heap[ref].notes = notes]
           /\ lastCall' = Call("edit", 0, which, TRUE, "", <<cloning.heap>>)
    /\ CloneUnchanged

NextClone ==
    \/ \E uuid \in UUIDs, store \in {NoStore, Vault} : CloneItem(uuid, store)
    \/ \E which \in {"source", "clone"}, url \in {"mysite.com"} :
          PushLocation(which, url)
    \/ \E which \in {"source", "clone"}, notes \in {"edited"} :
          EditContent(which, notes)

SpecClone == InitClone /\ [][NextClone]_vars

----------------------------------------------------------------------------
(* asyncutil.series *)

MaxFuncs == 4       \* longest array of functions handed to series()

\* what the promises of the functions resolve with and reject with
FuncResults == {"a", "b"}
FuncErrors == {"failed"}

\* seriesCall.funcs       the array given, the functions named 1..n
\* seriesCall.rest        the funcs of the innermost series() call
\* seriesCall.results     the results array
\* seriesCall.invocations per function, how often it has been invoked
\* seriesCall.settled     per function, <<>> or what its promise settled with
\* seriesCall.awaiting    the function whose promise the then() waits for
\* seriesCall.outcome     the promise that the outermost call returned

\* series(funcs, results): resolved at once for no functions, else
\* funcs[0]() is invoked and its promise awaited
series(call, funcs, results) ==
    IF Len(funcs) = 0
    THEN [call EXCEPT !.rest = funcs,
                      !.results = results,
                      !.awaiting = 0,
                      !.outcome = <<"resolved", results>>]
    ELSE [call EXCEPT !.rest = funcs,
                      !.results = results,
                      !.awaiting = funcs[1],
                      !.invocations[funcs[1]] = @ + 1,
                      !.outcome = <<"pending">>]

InitSeries ==
    /\ items = <<>>
    /\ ctorUuid = <<>>
    /\ contents = EmptyVault.contents
    /\ files = EmptyVault.files
    /\ written = [u \in UUIDs |-> "none"]
    /\ lastSaved = [u \in UUIDs |-> <<>>]
    /\ everRemoved = {}
    /\ lastCall = Call("init", 0, "", TRUE, "", <<>>)
    /\ nops = 0
    /\ storedKeys = NewVaultKeys
    /\ agent = UnlockedAgent
    /\ unlock = NoUnlock
    /\ crypto = NoCrypto
    /\ syncRevisions = NoSyncRevisions
    /\ inflight = <<>>
    /\ vaults = NoVaults
    /\ auth = NoAuth
    /\ listing = NoListing
    /\ repair = NoRepair
    /\ untilCall = NoUntil
    /\ cloning = NoCloning
    /\ seriesCall = NoSeries

SeriesUnchanged ==
    UNCHANGED <<items, ctorUuid, contents, files, everRemoved, written, nops,
                storedKeys, agent, unlock, lastSaved, crypto, syncRevisions,
                inflight, vaults, cloning, untilCall, repair, listing, auth>>

\* a caller's series(funcs), with n functions
Series(n) ==
    /\ seriesCall.outcome = <<"none">>
    /\ LET funcs == [i \in 1..n |-> i]
           call == [NoSeries EXCEPT
                       !.funcs = funcs,
                       !.invocations = [i \in 1..n |-> 0],
                       !.settled = [i \in 1..n |-> <<>>]]
       IN  seriesCall' = series(call, funcs, <<>>)
    /\ lastCall' = Call("series", n, "", TRUE, "", <<>>)
    /\ SeriesUnchanged

\* the promise of the function awaited resolves
FuncResolves(result) ==
    /\ seriesCall.awaiting # 0
    /\ seriesCall.settled[seriesCall.awaiting] = <<>>
    /\ seriesCall' = [seriesCall EXCEPT
                         !.settled[seriesCall.awaiting] =
                             << [ok |-> TRUE, value |-> result] >>]
    /\ lastCall' = Call("resolve", seriesCall.awaiting, "", TRUE, "", <<>>)
    /\ SeriesUnchanged

\* the promise of the function awaited rejects
FuncRejects(err) ==
    /\ seriesCall.awaiting # 0
    /\ seriesCall.settled[seriesCall.awaiting] = <<>>
    /\ seriesCall' = [seriesCall EXCEPT
                         !.settled[seriesCall.awaiting] =
                             << [ok |-> FALSE, value |-> err] >>]
    /\ lastCall' = Call("reject", seriesCall.awaiting, "", FALSE, err, <<>>)
    /\ SeriesUnchanged

\* variant: the result is put in front of the results
SeriesThen_unshift ==
    /\ seriesCall.awaiting # 0
    /\ seriesCall.settled[seriesCall.awaiting] # <<>>
    /\ seriesCall.settled[seriesCall.awaiting][1].ok
    /\ seriesCall' =
          series(seriesCall, Tail(seriesCall.rest),
                 <<seriesCall.settled[seriesCall.awaiting][1].value>>
                     \o seriesCall.results)
    /\ lastCall' = Call("then", seriesCall.awaiting, "", TRUE, "", <<>>)
    /\ SeriesUnchanged

\* the then() callback: results.push(result), series(funcs.slice(1), results)
SeriesThen ==
    /\ seriesCall.awaiting # 0
    /\ seriesCall.settled[seriesCall.awaiting] # <<>>
    /\ seriesCall.settled[seriesCall.awaiting][1].ok
    /\ seriesCall' =
          series(seriesCall, Tail(seriesCall.rest),
                 Append(seriesCall.results,
                        seriesCall.settled[seriesCall.awaiting][1].value))
    /\ lastCall' = Call("then", seriesCall.awaiting, "", TRUE, "", <<>>)
    /\ SeriesUnchanged

\* then() without a rejection handler: the rejection is passed on to the
\* promise that series() returned
SeriesRejected ==
    /\ seriesCall.awaiting # 0
    /\ seriesCall.settled[seriesCall.awaiting] # <<>>
    /\ ~seriesCall.settled[seriesCall.awaiting][1].ok
    /\ seriesCall' =
          [seriesCall EXCEPT
              !.awaiting = 0,
              !.outcome = <<"rejected",
                            seriesCall.settled[seriesCall.awaiting][1].value>>]
    /\ lastCall' = Call("rejected", seriesCall.awaiting, "", FALSE,
                        seriesCall.settled[seriesCall.awaiting][1].value, <<>>)
    /\ SeriesUnchanged

NextSeries ==
    \/ \E n \in 0..MaxFuncs : Series(n)
    \/ \E result \in FuncResults : FuncResolves(result)
    \/ \E err \in FuncErrors : FuncRejects(err)
    \/ SeriesThen
    \/ SeriesRejected

\* the reactions of settled promises are jobs of the event loop, which runs
\* every job queued; whether a function's promise settles is up to the
\* function
SpecSeries ==
    /\ InitSeries
    /\ [][NextSeries]_vars
    /\ WF_vars(SeriesThen)
    /\ WF_vars(SeriesRejected)

----------------------------------------------------------------------------
(* asyncutil.until *)

MaxInvocations == 4 \* invocations of func in one until() loop

\* what the promise of func() resolves with: values that if (done) takes
\* for false, and values that it takes for true
FalsyValues == {"false", "undefined", "0"}
TruthyValues == {"true", "1"}

\* untilCall.settled   what the promise of each invocation of func that
\*                     has settled did: <<"resolved", v>> or <<"rejected", e>>
\* untilCall.reacted   how many of them the then() reaction has run for
\* untilCall.awaiting  func has been invoked and its promise is pending or
\*                     its reaction has not run
\* untilCall.outcome   the promise that the outermost until() returned

\* the invocations of func so far
Invocations == untilCall.reacted + (IF untilCall.awaiting THEN 1 ELSE 0)

\* the promise of the invocation awaited has settled, its reaction has not
\* run yet
ReactionDue ==
    /\ untilCall.awaiting
    /\ untilCall.outcome = <<"pending">>
    /\ untilCall.settled # <<>>
    /\ untilCall.reacted < Len(untilCall.settled)

\* until(func): func() is invoked and its promise awaited
until(call) == [call EXCEPT !.awaiting = TRUE, !.outcome = <<"pending">>]

InitUntil ==
    /\ items = <<>>
    /\ ctorUuid = <<>>
    /\ contents = EmptyVault.contents
    /\ files = EmptyVault.files
    /\ written = [u \in UUIDs |-> "none"]
    /\ lastSaved = [u \in UUIDs |-> <<>>]
    /\ everRemoved = {}
    /\ lastCall = Call("init", 0, "", TRUE, "", <<>>)
    /\ nops = 0
    /\ storedKeys = NewVaultKeys
    /\ agent = UnlockedAgent
    /\ unlock = NoUnlock
    /\ crypto = NoCrypto
    /\ syncRevisions = NoSyncRevisions
    /\ inflight = <<>>
    /\ vaults = NoVaults
    /\ auth = NoAuth
    /\ listing = NoListing
    /\ repair = NoRepair
    /\ cloning = NoCloning
    /\ seriesCall = NoSeries
    /\ untilCall = NoUntil

UntilUnchanged ==
    UNCHANGED <<items, ctorUuid, contents, files, everRemoved, written, nops,
                storedKeys, agent, unlock, lastSaved, crypto, syncRevisions,
                inflight, vaults, cloning, seriesCall, repair, listing, auth>>

\* a caller's until(func)
Until ==
    /\ untilCall.outcome = <<"none">>
    /\ untilCall' = until(untilCall)
    /\ lastCall' = Call("until", 1, "", TRUE, "", <<>>)
    /\ UntilUnchanged

\* the promise of the invocation awaited resolves; a loop of more than
\* MaxInvocations iterations is not followed
UntilFuncResolves(done) ==
    /\ untilCall.awaiting
    /\ ~ReactionDue
    /\ done \in FalsyValues => Invocations < MaxInvocations
    /\ untilCall' = [untilCall EXCEPT
                        !.settled = Append(@, <<"resolved", done>>)]
    /\ lastCall' = Call("resolve", Invocations, "", TRUE, "", <<>>)
    /\ UntilUnchanged

\* the promise of the invocation awaited rejects
UntilFuncRejects(err) ==
    /\ untilCall.awaiting
    /\ ~ReactionDue
    /\ untilCall' = [untilCall EXCEPT
                        !.settled = Append(@, <<"rejected", err>>)]
    /\ lastCall' = Call("reject", Invocations, "", FALSE, err, <<>>)
    /\ UntilUnchanged

\* variant: the loop ends after one iteration whatever func resolved with
UntilThen_once ==
    /\ ReactionDue
    /\ untilCall.settled[Len(untilCall.settled)][1] = "resolved"
    /\ untilCall' = [untilCall EXCEPT
                        !.awaiting = FALSE,
                        !.reacted = Len(untilCall.settled),
                        !.outcome = <<"resolved", "true">>]
    /\ lastCall' = Call("then", Invocations, "", TRUE, "", <<>>)
    /\ UntilUnchanged

\* the then() callback: if (done) resolve with true, else until(func)
UntilThen ==
    /\ ReactionDue
    /\ untilCall.settled[Len(untilCall.settled)][1] = "resolved"
    /\ LET done == untilCall.settled[Len(untilCall.settled)][2]
           reacted == [untilCall EXCEPT !.reacted = Len(untilCall.settled)]
       IN  untilCall' =
             IF done \in TruthyValues
             THEN [reacted EXCEPT !.awaiting = FALSE,
                                  !.outcome = <<"resolved", "true">>]
             ELSE until(reacted)
    /\ lastCall' = Call("then", Invocations, "", TRUE, "", <<>>)
    /\ UntilUnchanged

\* then() without a rejection handler: the rejection is passed on to the
\* promise that until() returned
UntilRejected ==
    /\ ReactionDue
    /\ untilCall.settled[Len(untilCall.settled)][1] = "rejected"
    /\ untilCall' =
          [untilCall EXCEPT
              !.awaiting = FALSE,
              !.reacted = Len(untilCall.settled),
              !.outcome = <<"rejected",
                            untilCall.settled[Len(untilCall.settled)][2]>>]
    /\ lastCall' = Call("rejected", Invocations, "", FALSE,
                        untilCall.settled[Len(untilCall.settled)][2], <<>>)
    /\ UntilUnchanged

NextUntil ==
    \/ Until
    \/ \E done \in FalsyValues \cup TruthyValues : UntilFuncResolves(done)
    \/ \E err \in FuncErrors : UntilFuncRejects(err)
    \/ UntilThen
    \/ UntilRejected

\* the reactions of settled promises are jobs of the event loop, which runs
\* every job queued; whether the promise of func() settles is up to func
SpecUntil ==
    /\ InitUntil
    /\ [][NextUntil]_vars
    /\ WF_vars(UntilThen)
    /\ WF_vars(UntilRejected)

----------------------------------------------------------------------------
(* repairItem *)

\* repair.pc        "idle", "content" (getContent() has settled), "prompt"
\*                  (prompt() is pending), "done"
\* repair.h         the item handed to repairItem()
\* repair.before    that item as it was when repairItem() was called
\* repair.content   what item.getContent() settled with
\* repair.reported  the messages given to reportError()
\* repair.prompts   how often prompt() has been invoked
\* repair.answer    <<>> or what prompt() resolved with
\* repair.saves     how often item.save() has been called
\* repair.outcome   the promise that repairItem() returned

primaryLocation(item) ==
    IF Len(item.locations) > 0 THEN item.locations[1] ELSE ""

\* content.urls.length > 0 ? content.urls[0].url : ''
expectedLocation(content) ==
    IF Len(content.urls) > 0 THEN content.urls[1].url ELSE ""

\* the overview locations that the items to repair come with
RepairLocations ==
    { <<>>, <<"facebook.com">>, <<"mysite.com">>,
      <<"mysite.com", "facebook.com">> }

InitRepair ==
    /\ \E content \in ContentValues, locations \in RepairLocations,
          loaded \in BOOLEAN, store \in {NoStore, Vault} :
          LET saved == saveItem(EmptyVault, setContent(TestItem, content), 0)
              listed == [fromOverview(saved.contents["U1"][1]) EXCEPT
                            !.locations = locations,
                            !.store = store]
          IN  /\ contents = saved.contents
              /\ files = saved.files
              /\ items = << IF loaded THEN setContent(listed, content)
                            ELSE listed >>
              /\ lastSaved = [u \in UUIDs |->
                                IF u = "U1"
                                THEN << givenFields(TestItem, <<content>>) >>
                                ELSE <<>>]
    /\ ctorUuid = <<"U1">>
    /\ written = [u \in UUIDs |-> IF u = "U1" THEN "save" ELSE "none"]
    /\ everRemoved = {}
    /\ lastCall = Call("init", 0, "", TRUE, "", <<>>)
    /\ nops = 0
    /\ storedKeys = NewVaultKeys
    /\ agent \in {UnlockedAgent, NoKeys}
    /\ unlock = NoUnlock
    /\ crypto = NoCrypto
    /\ syncRevisions = NoSyncRevisions
    /\ inflight = <<>>
    /\ vaults = NoVaults
    /\ auth = NoAuth
    /\ listing = NoListing
    /\ cloning = NoCloning
    /\ seriesCall = NoSeries
    /\ untilCall = NoUntil
    /\ repair = NoRepair

RepairUnchanged ==
    UNCHANGED <<nops, storedKeys, agent, unlock, crypto, syncRevisions,
                inflight, vaults, cloning, seriesCall, untilCall, listing, auth>>

\* repairItem(item, reportError, prompt): item.getContent()
RepairItem(h) ==
    /\ repair.pc = "idle"
    /\ h \in Handles
    /\ LET r == getContent(TheVault, items[h])
       IN  /\ items' = IF items[h].content = <<>> /\ items[h].store = NoStore
                       THEN [items EXCEPT ![h].content = r.value]
                       ELSE items
           /\ repair' = [NoRepair EXCEPT !.pc = "content",
                                         !.h = h,
                                         !.before = <<items[h]>>,
                                         !.content = r,
                                         !.outcome = <<"pending">>]
           /\ lastCall' = Call("repairItem", h, items[h].uuid, r.err = "",
                               r.err, <<items[h]>>)
    /\ UNCHANGED <<ctorUuid, contents, files, everRemoved, written, lastSaved>>
    /\ RepairUnchanged

\* the then() callback of getContent(): the locations are compared; on a
\* mismatch it is reported, item.locations is set from the URLs of the
\* content and prompt() is invoked
RepairCheck ==
    /\ repair.pc = "content"
    /\ LET h == repair.h
           item == items[h]
       IN  IF repair.content.err # ""
           THEN /\ repair' = [repair EXCEPT
                                 !.pc = "done",
                                 !.outcome = <<"rejected", repair.content.err>>]
                /\ UNCHANGED items
           ELSE LET content == repair.content.value[1]
                    expected == expectedLocation(content)
                IN  IF primaryLocation(item) # expected
                    THEN /\ repair' = [repair EXCEPT
                                          !.pc = "prompt",
                                          !.reported =
                                              <<item.title,
                                                <<"Location mismatch",
                                                  primaryLocation(item),
                                                  expected>> >>,
                                          !.prompts = @ + 1]
                         /\ items' = [items EXCEPT
                                         ![h].locations =
                                             [i \in 1..Len(content.urls) |->
                                                 content.urls[i].url]]
                    ELSE /\ repair' = [repair EXCEPT
                                          !.pc = "done",
                                          !.outcome = <<"resolved">>]
                         /\ UNCHANGED items
    /\ lastCall' = Call("check", repair.h, items[repair.h].uuid, TRUE, "",
                        <<items[repair.h]>>)
    /\ UNCHANGED <<ctorUuid, contents, files, everRemoved, written, lastSaved>>
    /\ RepairUnchanged

\* the promise of prompt() resolves and its then() callback runs:
\* item.save() if the answer is true
PromptResolves(doRepair, now) ==
    /\ repair.pc = "prompt"
    /\ IF doRepair
       THEN /\ IF items[repair.h].store = NoStore
               THEN Reject("save", repair.h, "UnsavedItemError")
               ELSE SaveTo("save", repair.h, items[repair.h].store, now)
            /\ repair' = [repair EXCEPT
                             !.pc = "done",
                             !.answer = <<doRepair>>,
                             !.saves = @ + 1,
                             !.outcome = IF lastCall'.ok THEN <<"resolved">>
                                         ELSE <<"rejected", lastCall'.err>>]
       ELSE /\ repair' = [repair EXCEPT
                             !.pc = "done",
                             !.answer = <<doRepair>>,
                             !.outcome = <<"resolved">>]
            /\ lastCall' = Call("declined", repair.h, items[repair.h].uuid,
                                TRUE, "", <<items[repair.h]>>)
            /\ UNCHANGED <<items, ctorUuid, contents, files, everRemoved,
                           written, lastSaved>>
    /\ RepairUnchanged

\* the promise of prompt() rejects
PromptRejects(err) ==
    /\ repair.pc = "prompt"
    /\ repair' = [repair EXCEPT !.pc = "done",
                                !.outcome = <<"rejected", err>>]
    /\ lastCall' = Call("promptFailed", repair.h, items[repair.h].uuid,
                        FALSE, err, <<items[repair.h]>>)
    /\ UNCHANGED <<items, ctorUuid, contents, files, everRemoved, written,
                   lastSaved>>
    /\ RepairUnchanged

NextRepair ==
    \/ \E h \in Handles : RepairItem(h)
    \/ RepairCheck
    \/ \E doRepair \in BOOLEAN, now \in ClockValues :
          PromptResolves(doRepair, now)
    \/ \E err \in FuncErrors : PromptRejects(err)

SpecRepair == InitRepair /\ [][NextRepair]_vars

----------------------------------------------------------------------------
(* FileVFS.list *)

MaxEntries == 3     \* entries of the largest directory that is listed

\* the names that the entries of a directory have, and what fs.stat()
\* finds them to be; on a link whose target is gone fs.stat() fails
EntryNames == <<"a", "b", "c", "d", "e">>
EntryKinds == {"file", "dir", "dangling"}

\* the directory at the path listed: << >> when fs.readdir() fails on it,
\* else <<entries>> with the entries in the order fs.readdir() gives them
Directories ==
    { <<>> } \cup
    { << [i \in 1..n |-> [name |-> EntryNames[i], kind |-> kinds[i]]] >> :
        n \in 0..MaxEntries, kinds \in [1..MaxEntries -> EntryKinds] }

\* listing.pc        "idle", "readdir" (fs.readdir() is pending), "stat"
\*                   (its callback has run)
\* listing.dir       the directory at the path listed
\* listing.files     the names that fs.readdir() gave
\* listing.pending   the entries whose fs.stat() callback has not run
\* listing.done      the counter of the stat callbacks that succeeded
\* listing.infoList  the FileInfo list built so far
\* listing.cbCalls   the arguments of the invocations of cb
\* listing.log       what was written to the console

FileInfo(name, path, isDir) == [name |-> name, path |-> path, isDir |-> isDir]

\* Path.join(absPath, name)
Path_join(absPath, name) == <<absPath, name>>

ListAbsPath == "/root/dir"

InitList ==
    /\ items = <<>>
    /\ ctorUuid = <<>>
    /\ contents = EmptyVault.contents
    /\ files = EmptyVault.files
    /\ written = [u \in UUIDs |-> "none"]
    /\ lastSaved = [u \in UUIDs |-> <<>>]
    /\ everRemoved = {}
    /\ lastCall = Call("init", 0, "", TRUE, "", <<>>)
    /\ nops = 0
    /\ storedKeys = NewVaultKeys
    /\ agent = UnlockedAgent
    /\ unlock = NoUnlock
    /\ crypto = NoCrypto
    /\ syncRevisions = NoSyncRevisions
    /\ inflight = <<>>
    /\ vaults = NoVaults
    /\ auth = NoAuth
    /\ cloning = NoCloning
    /\ seriesCall = NoSeries
    /\ untilCall = NoUntil
    /\ repair = NoRepair
    /\ listing = NoListing

ListUnchanged ==
    UNCHANGED <<items, ctorUuid, contents, files, everRemoved, written, nops,
                storedKeys, agent, unlock, lastSaved, crypto, syncRevisions,
                inflight, vaults, cloning, seriesCall, untilCall, repair, auth>>

\* list(path, cb): fs.readdir(absPath, ...) is started
List(dir) ==
    /\ listing.pc = "idle"
    /\ listing' = [NoListing EXCEPT !.pc = "readdir", !.dir = dir]
    /\ lastCall' = Call("list", 0, ListAbsPath, TRUE, "", <<>>)
    /\ ListUnchanged

\* the callback of fs.readdir(): on an error a message and nothing else;
\* otherwise fs.stat() is started for every name
ReaddirDone ==
    /\ listing.pc = "readdir"
    /\ listing' =
          IF listing.dir = <<>>
          THEN [listing EXCEPT
                   !.pc = "stat",
                   !.log = Append(@, <<"Unable to read dir", ListAbsPath>>)]
          ELSE [listing EXCEPT
                   !.pc = "stat",
                   !.files = [i \in 1..Len(listing.dir[1]) |->
                                 listing.dir[1][i].name],
                   !.pending = 1..Len(listing.dir[1]),
                   !.done = 0,
                   !.infoList = <<>>]
    /\ lastCall' = Call("readdir", 0, ListAbsPath, listing.dir # <<>>, "",
                        <<>>)
    /\ ListUnchanged

\* the callback of fs.stat() for entry i: on an error a message and
\* nothing else; otherwise a FileInfo is pushed, and cb is given the list
\* when the counter has reached the number of names
StatDone(i) ==
    /\ listing.pc = "stat"
    /\ i \in listing.pending
    /\ LET name == listing.files[i]
           filePath == Path_join(ListAbsPath, name)
           kind == listing.dir[1][i].kind
           infoList == Append(listing.infoList,
                              FileInfo(name, filePath, kind = "dir"))
       IN  /\ listing' =
                 IF kind = "dangling"
                 THEN [listing EXCEPT
                          !.pending = @ \ {i},
                          !.log = Append(@, <<"Unable to stat", filePath>>)]
                 ELSE [listing EXCEPT
                          !.pending = @ \ {i},
                          !.infoList = infoList,
                          !.done = @ + 1,
                          !.cbCalls =
                              IF listing.done + 1 = Len(listing.files)
                              THEN Append(@, infoList)
                              ELSE @]
           /\ lastCall' = Call("stat", i, name, kind # "dangling", "", <<>>)
    /\ ListUnchanged

NextList ==
    \/ \E dir \in Directories : List(dir)
    \/ ReaddirDone
    \/ \E i \in 1..MaxEntries : StatDone(i)

SpecList == InitList /\ [][NextList]_vars

----------------------------------------------------------------------------
(* OAuthFlow.authenticate *)

\* auth.state        the random state of this authenticate() call
\* auth.storage      local storage under OAUTH_TOKEN_KEY: NoEntry or <<text>>
\* auth.polling      the interval timer is set
\* auth.windowOpen   the window with the authorization page is open
\* auth.cleaned      the finally() handler has run
\* auth.settledBy    the entry whose reading settled the promise
\* auth.credentials  the promise returned: <<"pending">>,
\*                   <<"resolved", credentials>> or <<"rejected", error>>

\* the values of crypto.randomBytes(16)
RandomStates == {"s1", "s2"}

\* a text is a pair of what it is and what it says: plain text, the
\* base64 form of a text, the JSON form of an object
Text(chars) == <<"text", chars>>

EmptyText == Text("")

\* btoa(text) and atob(text); atob() throws on text that is not base64
btoa(text) == <<"base64", text>>

IsBase64(text) == text[1] = "base64"

atob(text) == text[2]

\* the texts that are found in local storage: the empty text, text that
\* JSON.parse() throws on, and token data with the fields accessToken
\* and state, each of which may be missing ("")
TokenFields ==
    [accessToken : {"", "token1"},
     state : {EmptyText, Text("%%")} \cup
                 { btoa(Text(state)) : state \in RandomStates }]

tokenText(tokenData) == <<"json", tokenData>>

StoredTexts ==
    {EmptyText, Text("{")} \cup { tokenText(tokenData) : tokenData \in TokenFields }

\* JSON.parse(text) succeeds
IsJSON(text) == text[1] = "json"

JSON_parse(text) == text[2]

StateMismatch == "State mismatch"

\* variant: the state of the token data is not compared
readToken_noStateCheck(text, state) ==
    IF ~IsJSON(text)
    THEN <<"rejected", <<"Failed to parse OAuth token data", "SyntaxError">> >>
    ELSE LET tokenData == JSON_parse(text)
         IN  IF tokenData.state = EmptyText
             THEN <<"rejected", <<"Failed to parse OAuth token data",
                                  "Missing field state">> >>
             ELSE IF tokenData.accessToken = ""
             THEN <<"rejected", <<"Failed to parse OAuth token data",
                                  "Missing field accessToken">> >>
             ELSE <<"resolved", [accessToken |-> tokenData.accessToken]>>

\* the body of the try block of the poll callback, for the text read:
\* what the promise is resolved or rejected with
readToken(text, state) ==
    IF ~IsJSON(text)
    THEN <<"rejected", <<"Failed to parse OAuth token data", "SyntaxError">> >>
    ELSE LET tokenData == JSON_parse(text)
         IN  IF tokenData.state = EmptyText
             THEN <<"rejected", <<"Failed to parse OAuth token data",
                                  "Missing field state">> >>
             ELSE IF tokenData.accessToken = ""
             THEN <<"rejected", <<"Failed to parse OAuth token data",
                                  "Missing field accessToken">> >>
             ELSE IF ~IsBase64(tokenData.state)
             THEN <<"rejected", <<"Failed to parse OAuth token data",
                                  "InvalidCharacterError">> >>
             ELSE IF atob(tokenData.state) = Text(state)
             THEN <<"resolved", [accessToken |-> tokenData.accessToken]>>
             ELSE <<"rejected", StateMismatch>>

InitAuth ==
    /\ items = <<>>
    /\ ctorUuid = <<>>
    /\ contents = EmptyVault.contents
    /\ files = EmptyVault.files
    /\ written = [u \in UUIDs |-> "none"]
    /\ lastSaved = [u \in UUIDs |-> <<>>]
    /\ everRemoved = {}
    /\ lastCall = Call("init", 0, "", TRUE, "", <<>>)
    /\ nops = 0
    /\ storedKeys = NewVaultKeys
    /\ agent = UnlockedAgent
    /\ unlock = NoUnlock
    /\ crypto = NoCrypto
    /\ syncRevisions = NoSyncRevisions
    /\ inflight = <<>>
    /\ vaults = NoVaults
    /\ cloning = NoCloning
    /\ seriesCall = NoSeries
    /\ untilCall = NoUntil
    /\ repair = NoRepair
    /\ listing = NoListing
    /\ \E text \in StoredTexts :
          auth = [NoAuth EXCEPT !.storage = <<text>>]

AuthUnchanged ==
    UNCHANGED <<items, ctorUuid, contents, files, everRemoved, written, nops,
                storedKeys, agent, unlock, lastSaved, crypto, syncRevisions,
                inflight, vaults, cloning, seriesCall, untilCall, repair,
                listing>>

\* the promise has been resolved or rejected
Settled == auth.credentials[1] \in {"resolved", "rejected"}

\* credentials.resolve() and credentials.reject(): the first one settles
\* the promise, later ones do nothing
settle(a, outcome, text) ==
    IF a.credentials = <<"pending">>
    THEN [a EXCEPT !.credentials = outcome, !.settledBy = text]
    ELSE a

\* authenticate(): the random state, the entry in local storage removed,
\* the window opened, the interval timer set
Authenticate(state) ==
    /\ auth.credentials = <<"none">>
    /\ auth' = [auth EXCEPT !.state = state,
                            !.storage = NoEntry,
                            !.polling = TRUE,
                            !.windowOpen = TRUE,
                            !.credentials = <<"pending">>]
    /\ lastCall' = Call("authenticate", 0, state, TRUE, "", <<auth.storage>>)
    /\ AuthUnchanged

\* the page of the authorization window, or any other page of the
\* origin, stores a text under the key
StoreToken(text) ==
    /\ auth.credentials # <<"none">>
    /\ ~auth.cleaned
    /\ auth.storage # <<text>>
    /\ auth' = [auth EXCEPT !.storage = <<text>>]
    /\ lastCall' = Call("setItem", 0, "", TRUE, "", <<auth.storage>>)
    /\ AuthUnchanged

\* the callback of the interval timer
PollTick ==
    /\ auth.polling
    /\ LET tokenDataStr == auth.storage
       IN  IF tokenDataStr # NoEntry /\ tokenDataStr[1] # EmptyText
           THEN auth' = [settle(auth, readToken(tokenDataStr[1], auth.state),
                                tokenDataStr)
                            EXCEPT !.storage = NoEntry]
           ELSE auth' = auth
    /\ lastCall' = Call("poll", 0, "", TRUE, "", <<auth.storage>>)
    /\ AuthUnchanged

\* the 'close' event of the authorization window: the user closed it, or
\* the finally() handler did
WindowClosed ==
    /\ auth.windowOpen
    /\ auth' = [settle(auth,
                       <<"rejected", "Window closed before auth completed">>,
                       NoEntry)
                   EXCEPT !.windowOpen = FALSE]
    /\ lastCall' = Call("close", 0, "", TRUE, "", <<auth.storage>>)
    /\ AuthUnchanged

\* the finally() handler of the promise: authWindow.close() and
\* clearTimeout(pollTimeout)
AuthFinally ==
    /\ Settled
    /\ ~auth.cleaned
    /\ auth' = [auth EXCEPT !.windowOpen = FALSE,
                            !.polling = FALSE,
                            !.cleaned = TRUE]
    /\ lastCall' = Call("finally", 0, "", TRUE, "", <<auth.storage>>)
    /\ AuthUnchanged

NextAuth ==
    \/ \E state \in RandomStates : Authenticate(state)
    \/ \E text \in StoredTexts : StoreToken(text)
    \/ PollTick
    \/ WindowClosed
    \/ AuthFinally

\* the finally() handler is a job that the promise library queues when
\* the promise settles, and the event loop runs every job queued
SpecAuth == InitAuth /\ [][NextAuth]_vars /\ WF_vars(AuthFinally)

----------------------------------------------------------------------------
(* Properties *)

SaveOps == {"save", "saveTo", "remove"}

\* the errors that store.saveItem() fails with
StoreErrors == {"FileNotFound", "LockedStoreError", "DecryptionError"}

\* the call that ran last reached store.saveItem() and it succeeded
Saved == lastCall.op \in SaveOps /\ lastCall.ok

\* the call that ran last has called item.updateTimestamps()
Stamped ==
    \/ lastCall.op = "updateTimestamps"
    \/ lastCall.op \in SaveOps /\ lastCall.err \in {""} \cup StoreErrors

ListedUuids(includeTombstones) ==
    { item.uuid : item \in listItems(TheVault, includeTombstones) }

StateUuids == { st.uuid : st \in listItemStates(TheVault) }

\* C1: after remove() has resolved on an item that belongs to a store, the
\* item is a tombstone: type system.Tombstone, trashed, title 'Unnamed',
\* empty content, no locations, no folder; and its uuid is the one it had
\* before the call.
C1_RemoveLeavesTombstone ==
    (lastCall.op = "remove" /\ lastCall.ok) =>
        LET item == items[lastCall.h]
        IN  /\ item.typeName = TOMBSTONE
            /\ item.trashed = TRUE
            /\ item.title = "Unnamed"
            /\ item.content = <<ContentUtil_empty>>
            /\ item.locations = <<>>
            /\ item.folderUuid = ""
            /\ item.uuid = lastCall.prev[1].uuid

C1_Witness ==
    /\ lastCall.op = "remove" /\ lastCall.ok
    /\ lastCall.prev[1].folderUuid = "F1"
    /\ lastCall.prev[1].locations # <<>>
    /\ lastCall.prev[1].content = <<FacebookContent>>
    /\ ~lastCall.prev[1].trashed
    /\ lastCall.prev[1].title = "Facebook"

\* C2: while the last write of a uuid is a remove(), listItems() leaves the
\* uuid out, listItems({includeTombstones: true}) returns it and
\* listItemStates() reports it as deleted; a uuid that was saved and never
\* removed is returned by both forms of listItems().
C2_TombstonesListedOnRequest ==
    \A u \in UUIDs :
        /\ written[u] = "remove" =>
              /\ u \notin ListedUuids(FALSE)
              /\ u \in ListedUuids(TRUE)
              /\ \E st \in listItemStates(TheVault) :
                    st.uuid = u /\ st.deleted
        /\ (written[u] = "save" /\ u \notin everRemoved) =>
              /\ u \in ListedUuids(FALSE)
              /\ u \in ListedUuids(TRUE)

C2_Witness ==
    \E u, v \in UUIDs :
        /\ written[u] = "remove"
        /\ written[v] = "save" /\ v \notin everRemoved
        /\ ListedUuids(FALSE) = {v}
        /\ ListedUuids(TRUE) = {u, v}

\* C3: the uuid of an Item is the one its constructor assigned, whatever
\* calls were made on the item since.
C3_UuidImmutable ==
    \A h \in Handles : items[h].uuid = ctorUuid[h]

C3_Witness ==
    /\ lastCall.op = "remove" /\ lastCall.ok
    /\ lastCall.prev[1].revision # NoRevision
    /\ lastCall.prev[1].updatedAt # NoDate
    /\ items[lastCall.h].uuid = ctorUuid[lastCall.h]

\* C4: a successful save gives the item a revision other than the one it had
\* right before the save, also when nothing was edited since the last save.
C4_SaveChangesRevision ==
    Saved => items[lastCall.h].revision # lastCall.prev[1].revision

C4_Witness ==
    /\ lastCall.op = "save" /\ lastCall.ok
    /\ lastCall.prev[1].revision # NoRevision
    /\ lastCall.prev[1].parentRevision # NoRevision
    /\ \A f \in HashedFields \ {"parentRevision", "updatedAt"} :
          field(lastCall.prev[1], f) = field(items[lastCall.h], f)

\* C5: two items that agree on every hashed field (uuid, parentRevision,
\* title, updatedAt, createdAt, typeName, openContents, folderUuid,
\* faveIndex, trashed, content) get the same revision from
\* generateRevisionId, whatever else differs between them.
C5_RevisionDeterministic ==
    \A i, j \in Handles :
        DifferingFields(items[i], items[j]) = {} =>
            generateRevisionId(items[i], items[i].content[1])
                = generateRevisionId(items[j], items[j].content[1])

C5_Witness ==
    /\ Len(items) = 2
    /\ DifferingFields(items[1], items[2]) = {}
    /\ items[1].locations # items[2].locations
    /\ lastCall.op = "generateRevisionId"
    /\ items[1].revision = items[2].revision
    /\ items[1].revision # NoRevision
    /\ items[1].revision # TestRevision

\* C6: two items that differ in exactly one hashed field get different
\* revisions from generateRevisionId.
C6_RevisionSensitive ==
    \A i, j \in Handles :
        Cardinality(DifferingFields(items[i], items[j])) = 1 =>
            generateRevisionId(items[i], items[i].content[1])
                # generateRevisionId(items[j], items[j].content[1])

C6_Witness ==
    /\ Len(items) = 2
    /\ DifferingFields(items[1], items[2]) = {"folderUuid"}
    /\ lastCall.op = "generateRevisionId"
    /\ nops = 2
    /\ items[1].revision # items[2].revision

\* C7: whenever updateTimestamps() runs on an item that has an updatedAt,
\* the new updatedAt is at least 1000 ms later than the previous one,
\* whatever the clock reads.
C7_UpdatedAtAdvances ==
    (Stamped /\ lastCall.prev[1].updatedAt # NoDate) =>
        items[lastCall.h].updatedAt - lastCall.prev[1].updatedAt >= MinStepMs

\* the clock never reads more than MaxTicks ticks: it did not advance
C7_Witness ==
    /\ lastCall.op = "updateTimestamps"
    /\ \A now \in ClockValues : lastCall.prev[1].updatedAt >= now
    /\ items[lastCall.h].updatedAt = lastCall.prev[1].updatedAt + MinStepMs

\* C8: once the file of an item has been deleted behind the vault's back,
\* listItems() and listItemStates() leave that uuid out and still return
\* every other saved item.
C8_SelfHealingListing ==
    \A u \in UUIDs :
        written[u] = "rm" =>
            /\ u \notin ListedUuids(FALSE)
            /\ u \notin StateUuids
            /\ \A v \in UUIDs \ {u} :
                  (written[v] = "save" /\ v \notin everRemoved) =>
                      v \in ListedUuids(FALSE) /\ v \in StateUuids

C8_Witness ==
    \E u, v \in UUIDs :
        /\ lastCall.op = "rm" /\ lastCall.uuid = u
        /\ contents[u] # <<>>
        /\ written[v] = "save" /\ v \notin everRemoved
        /\ ListedUuids(FALSE) = {v}
        /\ StateUuids = {v}

\* C9: listItemStates() is the projection of
\* listItems({includeTombstones: true}): the same uuids, each with the
\* revision of the item and deleted = item.isTombstone().
C9_StatesMatchItems ==
    LET states == listItemStates(TheVault)
        listed == listItems(TheVault, TRUE)
    IN  /\ \A st \in states : \E item \in listed :
              /\ item.uuid = st.uuid
              /\ item.revision = st.revision
              /\ st.deleted = (item.typeName = TOMBSTONE)
        /\ \A item \in listed : \E st \in states :
              /\ item.uuid = st.uuid
              /\ item.revision = st.revision
              /\ st.deleted = (item.typeName = TOMBSTONE)
        /\ Cardinality(states) = Cardinality(listed)

C9_Witness ==
    /\ Cardinality(listItemStates(TheVault)) = 2
    /\ \E st \in listItemStates(TheVault) : st.deleted
    /\ \E st \in listItemStates(TheVault) : ~st.deleted
    /\ \E item \in listItems(TheVault, TRUE) :
          item.typeName # TOMBSTONE /\ item.revision # NoRevision

\* C10: loadItem(uuid) fails with ItemNotFound for a uuid that was never
\* saved and for a uuid whose last write is a remove(); it never returns a
\* tombstone.
C10_LoadItemNotFound ==
    \A u \in UUIDs :
        LET r == loadItem(TheVault, u)
        IN  /\ written[u] \in {"none", "remove"} => r.err = "ItemNotFound"
            /\ r.err = "" => r.item[1].typeName # TOMBSTONE

C10_Witness ==
    /\ lastCall.op = "loadItem"
    /\ lastCall.err = "ItemNotFound"
    /\ written[lastCall.uuid] = "remove"
    /\ \E u \in UUIDs : written[u] = "none"

\* the derived key that DecryptKey tries is the one that wrapped the key
SameDerivedKey ==
    crypto.other = crypto.password /\ crypto.otherSalt = crypto.salt

\* C14: decryptKey returns only a key that it has verified: with the
\* derived key that wrapped the master key and the validation block of that
\* key it returns the master key; whenever the candidate that the derived
\* key unwraps does not reproduce the validation block (another password,
\* another salt, the validation block of another key) it fails with
\* DecryptionError and returns no key material.
C14_DecryptKeyVerifies ==
    crypto.op = "decryptKey" =>
        LET masterKey == MasterKey(crypto.keyId)
            validation == validationBlock(MasterKey(crypto.validationOf))
            derivedKey == keyFromPassword(crypto.other, crypto.otherSalt,
                                          Iterations)
            candidate == aesCbcDecrypt(derivedKey, crypto.encrypted[1].key)
        IN  /\ (SameDerivedKey /\ crypto.validationOf = crypto.keyId)
                   => crypto.result = Ok(masterKey)
            /\ validationBlock(candidate) # validation
                   => crypto.result = DecryptionFailed
            /\ ~(SameDerivedKey /\ crypto.validationOf = crypto.keyId)
                   => crypto.result = DecryptionFailed
            /\ crypto.result.err = ""
                   => validationBlock(crypto.result.value[1]) = validation

C14_Witness ==
    /\ crypto.op = "decryptKey"
    /\ crypto.other # crypto.password
    /\ crypto.validationOf = crypto.keyId
    /\ crypto.result = DecryptionFailed

WrappedUnder(k, password) ==
    k.data = aesCbcEncrypt(keyFromPassword(password, k.salt, k.iterations),
                           MasterKey(k.identifier))

\* the identifiers of the generations that the password validates against
Validating(keys, password) ==
    { keys[i].identifier :
        i \in { j \in 1..Len(keys) : WrappedUnder(keys[j], password) } }

\* an unlockStore() call has settled
UnlockSettled == lastCall.op = "unlock"

C13_WrongPasswordFails ==
    /\ [](UnlockSettled =>
            ((/\ Len(lastCall.prev[1].keys) > 0
              /\ Validating(lastCall.prev[1].keys,
                            lastCall.prev[1].password) = {})
                => ~lastCall.ok /\ lastCall.err = "DecryptionError"))
    /\ [][(/\ unlock.pc # "idle"
           /\ Validating(storedKeys, unlock.password) = {})
            => \A id \in KeyIds : agent'[id] # <<>> => agent'[id] = agent[id]]_vars

C13_Witness ==
    /\ UnlockSettled /\ ~lastCall.ok
    /\ lastCall.prev[1].password = "wrong-password"
    /\ Len(lastCall.prev[1].keys) = 2
    /\ agent = NoKeys

\* the item is saved in the vault and the agent does not hold the key that
\* the item's file names
KeyNotHeld(item) ==
    /\ item.store = Vault
    /\ isSaved(item)
    /\ files[item.uuid] # <<>>
    /\ agent[files[item.uuid][1].keyID] = <<>>

\* C16: whenever the agent does not hold the key of a saved item,
\* getContent() and getRawDecryptedData() of every Item instance of that
\* item fail with LockedStoreError and yield no content, also when the
\* content of the instance was fetched or set earlier.
C16_ContentOnlyWhileKeyHeld ==
    \A h \in Handles :
        KeyNotHeld(items[h]) =>
            /\ getContent(TheVault, items[h]) = Failed("LockedStoreError")
            /\ getRawDecryptedData(TheVault, items[h])
                   = Failed("LockedStoreError")

\* what does hold while the key is not held: the raw data is never
\* decrypted, and an instance without memoized content yields none
C16_UncachedContentLocked ==
    \A h \in Handles :
        KeyNotHeld(items[h]) =>
            /\ getRawDecryptedData(TheVault, items[h])
                   = Failed("LockedStoreError")
            /\ items[h].content = <<>> =>
                   getContent(TheVault, items[h]) = Failed("LockedStoreError")

\* the state of the key agent as the callers see it
AgentState ==
    IF agent # NoKeys THEN "Unlocked"
    ELSE IF unlock.pc # "idle" THEN "Unlocking"
    ELSE "Locked"

\* while an unlock is in flight the agent holds none or all of the keys
\* that the unlock adds
NoPartialUnlock ==
    unlock.pc # "idle" =>
        LET willAdd == Validating(storedKeys, unlock.password)
        IN  \/ \A id \in willAdd : agent[id] = <<>>
            \/ \A id \in willAdd : agent[id] # <<>>

StoredUuids == { u \in UUIDs : files[u] # <<>> }

\* C18: right after forgetKeys() the agent's table is empty, whatever it
\* held; while the table is empty no content of the vault can be decrypted
\* (getContent, getRawDecryptedData and loadItem fail with
\* LockedStoreError); and the table gets a key again only through an unlock
\* with a password that validates.
C18_ForgetLocksStore ==
    /\ [](lastCall.op = "forgetKeys" =>
            agent = NoKeys /\ AgentState # "Unlocked")
    /\ [](agent = NoKeys =>
            \A u \in StoredUuids :
                LET item == fromOverview(files[u][1].overview)
                IN  /\ store_getContent(TheVault, item)
                           = Failed("LockedStoreError")
                    /\ store_getRawDecryptedData(TheVault, item)
                           = Failed("LockedStoreError")
                    /\ loadItem(TheVault, u).err = "LockedStoreError")
    /\ [][(agent = NoKeys /\ agent' # NoKeys) =>
            /\ unlock.pc = "addKeys"
            /\ Validating(storedKeys, unlock.password) # {}]_vars

C18_Witness ==
    /\ lastCall.op = "forgetKeys"
    /\ \A id \in KeyIds : lastCall.prev[1][id] # <<>>
    /\ StoredUuids # {}
    /\ agent = NoKeys

\* C11: while the store is unlocked, loadItem(uuid) returns the title,
\* faveIndex, trashed flag and content that the most recent successful save
\* of the uuid was given, also after the keys were forgotten and the store
\* was unlocked again with its password.
C11_SaveLoadRoundTrip ==
    \A u \in UUIDs :
        (written[u] = "save" /\ agent[ItemKeyID] # <<>>) =>
            LET loaded == loadItem(TheVault, u)
                given == lastSaved[u][1]
            IN  /\ loaded.err = ""
                /\ loaded.item[1].title = given.title
                /\ loaded.item[1].faveIndex = given.faveIndex
                /\ loaded.item[1].trashed = given.trashed
                /\ loaded.content = given.content
                /\ loaded.item[1].content = given.content

C11_Witness ==
    /\ UnlockSettled /\ lastCall.ok
    /\ written["U1"] = "save"
    /\ lastSaved["U1"][1].closed
    /\ lastSaved["U1"][1].title = "Twitter"
    /\ agent[ItemKeyID] # <<>>
    /\ loadItem(TheVault, "U1").item[1].title = "Twitter"

\* C19: for every uuid and storeId, getLastSyncedRevision returns the pair
\* of the most recent setLastSyncedRevision for that uuid and storeId
\* (nothing if there was none), whatever was set for other uuids and
\* storeIds, and lastSyncRevisions(storeId) maps exactly the uuids that have
\* a pair for storeId, each to that pair.
C19_SyncRevisionsReadBack ==
    \A storeID \in StoreIds :
        LET recorded == syncRevisions.recorded
            revisions == lastSyncRevisions(syncRevisions.table, storeID)
        IN  /\ \A uuid \in UUIDs :
                  getLastSyncedRevision(syncRevisions.table, uuid, storeID)
                      = recorded[<<uuid, storeID>>]
            /\ DOMAIN revisions
                  = { uuid \in UUIDs : recorded[<<uuid, storeID>>] # <<>> }
            /\ \A uuid \in DOMAIN revisions :
                  <<revisions[uuid]>> = recorded[<<uuid, storeID>>]

C19_Witness ==
    /\ lastCall.op = "setLastSyncedRevision"
    /\ lastCall.uuid = "U1"
    /\ lastCall.prev[1].storeID = "cloud"
    /\ lastCall.prev[1].before[<<"U1", "cloud">>] # <<>>
    /\ lastCall.prev[1].before[<<"U1", "cloud">>]
          # syncRevisions.recorded[<<"U1", "cloud">>]
    /\ syncRevisions.recorded[<<"U1", "backup">>] # <<>>
    /\ syncRevisions.recorded[<<"U1", "backup">>]
          # syncRevisions.recorded[<<"U1", "cloud">>]
    /\ syncRevisions.recorded[<<"U2", "cloud">>] # <<>>

\* the save of the item with this handle has resolved
Resolved(h) == inflight.saves[h].pc = "done"

\* the uuid is listed with the revision
ListedWith(uuid, revision) ==
    /\ \E item \in listItems(TheVault, FALSE) :
          item.uuid = uuid /\ item.revision = revision
    /\ \E st \in listItemStates(TheVault) :
          st.uuid = uuid /\ st.revision = revision /\ ~st.deleted

C21_RemoveIsRevisionedWrite ==
    /\ []((lastCall.op = "remove" /\ lastCall.ok) =>
            LET item == items[lastCall.h]
            IN  /\ item.revision # lastCall.prev[1].revision
                /\ item.revision = generateRevisionId(item, item.content[1])
                /\ contents[item.uuid] = << toOverview(item) >>
                /\ item.uuid \in StateUuids
                /\ item.uuid \in ListedUuids(TRUE))
    /\ [](\A u \in UUIDs : written[u] = "remove" =>
            /\ u \in StateUuids
            /\ isTombstone(contents[u][1])
            /\ contents[u][1].revision # NoRevision)
    /\ [][\A u \in UUIDs : contents[u] # <<>> => contents'[u] # <<>>]_vars

C21_Witness ==
    /\ lastCall.op = "remove" /\ lastCall.ok
    /\ lastCall.prev[1].revision # NoRevision
    /\ lastCall.prev[1].typeName = LOGIN
    /\ files[lastCall.uuid] = <<>>
    /\ lastCall.uuid \in StateUuids
    /\ lastCall.uuid \notin ListedUuids(FALSE)

Storage == <<contents, files, storedKeys>>

\* C23: unlock performs no writes: every step of unlockStore(), whatever
\* the password and whether the unlock goes on to succeed, to fail or is
\* left unfinished, leaves the index file, the item files and the key file
\* as they were.
C23_UnlockWritesNothing ==
    [][unlock' # unlock => Storage' = Storage]_vars

C23_Witness ==
    /\ UnlockSettled /\ lastCall.ok
    /\ lastCall.prev[1].password = "old-pass"
    /\ Len(storedKeys) = 2
    /\ storedKeys = lastCall.prev[1].keys
    /\ contents = TestVault.contents
    /\ files = TestVault.files

\* the URLs of the content, in order
urlsOf(content) == [k \in 1..Len(content.urls) |-> content.urls[k].url]

\* C25: a successful save sets the locations of the item to the URLs of its
\* content, in the same order, whatever the locations were before; the item
\* that loadItem() returns for a saved uuid has the URLs of its content as
\* locations.  (The save of a tombstone leaves no item for loadItem() to
\* return.)
C25_LocationsMirrorContent ==
    /\ (lastCall.op \in {"save", "saveTo"} /\ lastCall.ok) =>
          LET item == items[lastCall.h]
              loaded == loadItem(TheVault, item.uuid)
          IN  /\ item.locations = urlsOf(item.content[1])
              /\ contents[item.uuid][1].locations = urlsOf(item.content[1])
              /\ ~isTombstone(item) =>
                    /\ loaded.err = ""
                    /\ loaded.item[1].locations = urlsOf(item.content[1])
                    /\ loaded.content = item.content
    /\ \A u \in UUIDs :
          loadItem(TheVault, u).err = "" =>
              loadItem(TheVault, u).item[1].locations
                  = urlsOf(loadItem(TheVault, u).content[1])

C25_Witness ==
    /\ lastCall.op = "save" /\ lastCall.ok
    /\ lastCall.prev[1].locations = <<"mysite.com">>
    /\ lastCall.prev[1].content = <<FacebookContent>>
    /\ loadItem(TheVault, lastCall.uuid).item[1].locations = <<"facebook.com">>

\* the call that ran last reached store.saveItem() while the file of the
\* item was missing from the storage
FileWasMissing ==
    /\ lastCall.op \in SaveOps
    /\ lastCall.prev[1].store # NoStore
    /\ Len(lastCall.prev) = 2
    /\ ~lastCall.prev[2]

\* C28: remove() on an item of a store resolves also when the file of the
\* item is already gone from the storage, and leaves the item and the index
\* entry of its uuid as a tombstone.
C28_RemoveWithoutFile ==
    (lastCall.op = "remove" /\ FileWasMissing) =>
        /\ lastCall.ok
        /\ isTombstone(items[lastCall.h])
        /\ items[lastCall.h].content = <<ContentUtil_empty>>
        /\ isTombstone(contents[lastCall.uuid][1])
        /\ files[lastCall.uuid] = <<>>
        /\ written[lastCall.uuid] = "remove"

C28_Witness ==
    /\ lastCall.op = "remove" /\ FileWasMissing
    /\ lastCall.prev[1].revision # NoRevision
    /\ lastCall.prev[1].content = <<>>
    /\ lastCall.ok
    /\ isTombstone(items[lastCall.h])

\* C29: an unlock of a store whose key file holds no keys fails, whatever
\* the password, with the error 'Unable to unlock store: No encryption keys
\* have been saved'; it is never reported as a success, and no key is added
\* to the agent while it is in flight.
C29_NoKeysSavedFails ==
    /\ [](UnlockSettled =>
            (Len(lastCall.prev[1].keys) = 0
                => ~lastCall.ok /\ lastCall.err = NoKeysSaved))
    /\ []((UnlockSettled /\ lastCall.err = NoKeysSaved) =>
            Len(lastCall.prev[1].keys) = 0)
    /\ [][(unlock.pc # "idle" /\ Len(storedKeys) = 0)
            => \A id \in KeyIds : agent'[id] = <<>>]_vars

C29_Witness ==
    /\ UnlockSettled /\ ~lastCall.ok
    /\ lastCall.err = NoKeysSaved
    /\ lastCall.prev[1].password = TestPassword
    /\ Len(storedKeys) = 0
    /\ agent = NoKeys

\* the operations of an Item that need its store
NeedStore == {"save", "remove", "getRawDecryptedData"}

\* C30: save(), remove() and getRawDecryptedData() on an item that has no
\* store reject with UnsavedItemError, and the call changes no field of the
\* item and nothing on the storage.
C30_UnsavedItemRejected ==
    /\ [](lastCall.op \in NeedStore =>
            (/\ ~lastCall.ok
             /\ lastCall.err = "UnsavedItemError"
             /\ items[lastCall.h].store = NoStore))
    /\ [](\A h \in Handles :
            items[h].store = NoStore =>
                getRawDecryptedData(TheVault, items[h])
                    = Failed("UnsavedItemError"))
    /\ [][\A h \in Handles :
            (/\ items[h].store = NoStore
             /\ lastCall'.op \in NeedStore
             /\ lastCall'.h = h)
            => /\ items'[h] = items[h]
               /\ Storage' = Storage
               /\ lastCall'.err = "UnsavedItemError"]_vars

C30_Witness ==
    /\ lastCall.op = "remove"
    /\ lastCall.err = "UnsavedItemError"
    /\ items[lastCall.h] = lastCall.prev[1]
    /\ items[lastCall.h].title = "Facebook"
    /\ items[lastCall.h].content = <<FacebookContent>>
    /\ items[lastCall.h].typeName = LOGIN

\* the keys that the agent of an open vault holds
KeysHeld(v) == vaults.agents[vaults.open[v].agent]

\* the content that the caller of an open vault holds decrypted
CachedContent(v) ==
    IF vaults.open[v].item = <<>> THEN <<>>
    ELSE vaults.open[v].item[1].content

\* C24: an operation on one open Vault instance (unlock, lock, load, save,
\* change of password), the creation of a vault and the opening of another
\* instance never change the keys that the agent of another open instance
\* holds, hence its lock state, nor the item and content that the caller
\* of the other instance holds, also when both are open on one directory.
C24_VaultsIndependent ==
    [][\A w \in VaultIds :
          lastCall'.h # w =>
              /\ KeysHeld(w)' = KeysHeld(w)
              /\ (KeysHeld(w)' = NoKeys) = (KeysHeld(w) = NoKeys)
              /\ CachedContent(w)' = CachedContent(w)
              /\ vaults'.open[w] = vaults.open[w]]_vars

C24_Witness ==
    /\ Len(vaults.open) = 2
    /\ vaults.open[1].path = vaults.open[2].path
    /\ lastCall.op = "save" /\ lastCall.ok /\ lastCall.h = 1
    /\ KeysHeld(1) # NoKeys
    /\ CachedContent(1) # <<>>
    /\ KeysHeld(2) = NoKeys
    /\ CachedContent(2) = <<>>

\* C26: createVault() on a path where a vault directory exists fails with
\* VfsError and writes nothing: the directory, the open instances and their
\* agents are as before, and the vault still unlocks with the password it
\* had (the one it was created with or last changed to).
C26_CreateVaultKeepsExisting ==
    /\ [][(lastCall'.op = "createVault" /\ vaults.fs[lastCall'.uuid] # <<>>)
            => /\ ~lastCall'.ok
               /\ lastCall'.err = "VfsError"
               /\ vaults' = vaults]_vars
    /\ []((lastCall.op = "createVault" /\ ~lastCall.ok) =>
            lastCall.err = "VfsError")
    /\ [](\A path \in Paths :
            vaults.fs[path] # <<>> =>
                decryptKeys(vaults.fs[path][1].keys,
                            vaults.password[path]).err = "")

C26_Witness ==
    /\ lastCall.op = "createVault" /\ ~lastCall.ok
    /\ lastCall.err = "VfsError"
    /\ lastCall.prev[1].password # vaults.password[lastCall.uuid]
    /\ vaults.fs[lastCall.uuid][1].contents # EmptyVault.contents
    /\ decryptKeys(vaults.fs[lastCall.uuid][1].keys,
                   lastCall.prev[1].password).err = "DecryptionError"
    /\ \E v \in VaultIds :
          vaults.open[v].path = lastCall.uuid /\ KeysHeld(v) # NoKeys

\* C27: changePassword(oldPass, newPass, hint) with an oldPass that is not
\* the password of the vault fails with DecryptionError and changes
\* nothing; with the password of the vault it succeeds, keeps the master
\* keys and the items, and from then on unlock() succeeds with newPass and
\* with no other password, and passwordHint() returns the new hint.
C27_ChangePassword ==
    /\ [][lastCall'.op = "changePassword" =>
            LET path == lastCall'.uuid
                given == lastCall'.prev[1]
                before == vaults.fs[path][1]
                after == vaults'.fs[path][1]
            IN  IF given.oldPass # vaults.password[path]
                THEN /\ ~lastCall'.ok
                     /\ lastCall'.err = "DecryptionError"
                     /\ vaults' = vaults
                ELSE /\ lastCall'.ok
                     /\ decryptKeys(after.keys, given.newPass)
                            = decryptKeys(before.keys, given.oldPass)
                     /\ \A other \in Passwords \ {given.newPass} :
                            decryptKeys(after.keys, other).err
                                = "DecryptionError"
                     /\ passwordHint(after) = given.hint
                     /\ after.contents = before.contents
                     /\ after.files = before.files
                     /\ vaults'.agents = vaults.agents
                     /\ vaults'.open = vaults.open]_vars
    /\ [](lastCall.op = "unlock" =>
            (lastCall.ok <=>
                lastCall.prev[1].password = vaults.password[lastCall.uuid]))
    /\ [](lastCall.op = "passwordHint" =>
            lastCall.prev[1] = passwordHint(vaults.fs[lastCall.uuid][1]))

C27_Witness ==
    /\ lastCall.op = "passwordHint"
    /\ lastCall.prev[1] = "new-hint"
    /\ lastCall.uuid = "/a.agilekeychain"
    /\ vaults.password[lastCall.uuid] = "old-pass"
    /\ KeysHeld(lastCall.h) # NoKeys
    /\ loadItem(StoreOf(lastCall.h), VaultItem).err = ""

\* the item has no store or no last-modified time
NotYetSaved(item) == item.store = NoStore \/ item.updatedAt = NoDate

StampingOps == SaveOps \cup {"updateTimestamps"}

\* C32: updateTimestamps() sets createdAt only when the item has none: a
\* save, a removal or a direct updateTimestamps() leaves the createdAt of
\* every item that has one as it is, and gives an item without one the
\* clock reading when the call gets as far as stamping.
C32_CreatedAtSetOnce ==
    /\ []((Stamped /\ lastCall.prev[1].createdAt = NoDate) =>
            items[lastCall.h].createdAt \in ClockValues)
    /\ [][lastCall'.op \in StampingOps =>
            /\ Len(items') = Len(items)
            /\ \A h \in Handles :
                  items[h].createdAt # NoDate =>
                      items'[h].createdAt = items[h].createdAt]_vars

\* a removal stamped later than the creation time, which stays
C32_Witness ==
    /\ lastCall.op = "remove"
    /\ lastCall.ok
    /\ lastCall.prev[1].createdAt = 0
    /\ items[lastCall.h].createdAt = 0
    /\ items[lastCall.h].updatedAt >= 2 * MinStepMs

\* the arrays and objects that the source item and its content consist of
SourceCells ==
    {cloning.source[1].item.locations, cloning.source[1].content}

\* the fields that cloneItem() copies by assignment
CopiedFields ==
    {"faveIndex", "trashed", "updatedAt", "createdAt", "typeName", "title",
     "openContents", "account"}

FieldOf(item, name) ==
    CASE name = "faveIndex" -> <<item.faveIndex>>
      [] name = "trashed" -> <<item.trashed>>
      [] name = "updatedAt" -> <<item.updatedAt>>
      [] name = "createdAt" -> <<item.createdAt>>
      [] name = "typeName" -> <<item.typeName>>
      [] name = "title" -> <<item.title>>
      [] name = "openContents" -> <<item.openContents>>
      [] name = "account" -> <<item.account>>
      [] name = "folderUuid" -> <<item.folderUuid>>

\* what holds of the result of cloneItem() whatever the source item is:
\* the uuid given, the source's revision as parentRevision, no revision,
\* the fields other than folderUuid, and locations and content that are
\* equal to the source's and are objects of their own
ClonedBut(fields) ==
    LET src == cloning.source[1]
        res == cloning.result[1]
    IN  /\ res.item.uuid = lastCall.uuid
        /\ res.item.store = lastCall.prev[1]
        /\ res.item.parentRevision = src.item.revision
        /\ res.item.revision = NoRevision
        /\ \A name \in fields :
              FieldOf(res.item, name) = FieldOf(src.item, name)
        /\ cloning.heap[res.item.locations] =
              cloning.heap[src.item.locations]
        /\ cloning.heap[res.content] = cloning.heap[src.content]
        /\ res.item.content = <<res.content>>
        /\ res.item.locations \notin SourceCells
        /\ res.content \notin SourceCells

\* a change made through the clone leaves the objects of the source alone
CloneIndependent ==
    [][(lastCall'.op \in {"push", "edit"} /\ lastCall'.uuid = "clone") =>
          \A ref \in SourceCells : cloning'.heap[ref] = cloning.heap[ref]]_vars

\* C33: the result of cloneItem(itemAndContent, uuid, store) has the given
\* uuid, the source item's revision as its parentRevision and no revision;
\* its folderUuid, faveIndex, trashed, updatedAt, createdAt, typeName,
\* title, openContents, locations and account equal those of the source
\* item; its content and locations are copies of their own: changing them
\* leaves the source unchanged.
C33_CloneCopiesItem ==
    /\ [](lastCall.op = "cloneItem" =>
            ClonedBut(CopiedFields \cup {"folderUuid"}))
    /\ CloneIndependent

\* C33, the part that the code keeps: all of the above but the folderUuid,
\* which is the uuid of the source item.
C33_CloneCopiesButFolder ==
    /\ [](lastCall.op = "cloneItem" =>
            /\ ClonedBut(CopiedFields)
            /\ cloning.result[1].item.folderUuid =
                  cloning.source[1].item.uuid)
    /\ CloneIndependent

\* the clone of an item that is in a folder, changed afterwards
C33_Witness ==
    /\ lastCall.op = "push"
    /\ lastCall.uuid = "clone"
    /\ cloning.source[1].item.folderUuid = "F1"
    /\ cloning.result[1].item.folderUuid = "U1"
    /\ cloning.result[1].item.uuid = "U2"
    /\ cloning.heap[cloning.result[1].item.locations] #
          cloning.heap[cloning.source[1].item.locations]

\* the functions handed to series()
Funcs == 1..Len(seriesCall.funcs)

\* the promise of function i has resolved / has rejected
FuncResolved(i) == seriesCall.settled[i] # <<>> /\ seriesCall.settled[i][1].ok

FuncRejected(i) == seriesCall.settled[i] # <<>> /\ ~seriesCall.settled[i][1].ok

\* C34: series(funcs) runs the functions one after the other: a function
\* is invoked only after the promise of the one before it has resolved,
\* none is invoked more than once, the array that series resolves with
\* holds the results in the order of funcs, and when the promise of a
\* function rejects no later function is invoked and series rejects.
C34_SeriesIsSerial ==
    /\ [](\A i \in Funcs :
            /\ seriesCall.invocations[i] <= 1
            /\ (i > 1 /\ seriesCall.invocations[i] > 0) => FuncResolved(i - 1)
            /\ FuncRejected(i) =>
                  /\ \A j \in Funcs : j > i => seriesCall.invocations[j] = 0
                  /\ seriesCall.outcome[1] # "resolved")
    /\ [](seriesCall.outcome[1] = "resolved" =>
            /\ Len(seriesCall.outcome[2]) = Len(seriesCall.funcs)
            /\ \A i \in Funcs :
                  /\ FuncResolved(i)
                  /\ seriesCall.outcome[2][i] = seriesCall.settled[i][1].value)
    /\ [](seriesCall.outcome[1] = "rejected" =>
            \E i \in Funcs :
                /\ FuncRejected(i)
                /\ seriesCall.outcome[2] = seriesCall.settled[i][1].value)
    /\ (\E i \in Funcs : FuncRejected(i)) ~>
           seriesCall.outcome[1] = "rejected"

\* three functions with results that differ, resolved in their order
C34_Witness ==
    /\ Len(seriesCall.funcs) = 3
    /\ seriesCall.outcome = <<"resolved", <<"a", "b", "b">> >>
    /\ \A i \in Funcs : seriesCall.invocations[i] = 1

\* invocation k of func has resolved with a value taken for true, or has
\* rejected
EndsLoop(k) ==
    \/ untilCall.settled[k][1] = "rejected"
    \/ untilCall.settled[k][2] \in TruthyValues

\* until() has completed: the promise it returned has settled
UntilCompleted == untilCall.outcome[1] \in {"resolved", "rejected"}

\* C35: until(func) invokes func again only after the promise of the
\* invocation before has resolved with a falsy value; it resolves with
\* true after the first invocation that resolves with true and does not
\* invoke func after that; it completes if and only if some invocation of
\* func resolves with true or rejects.
C35_UntilLoops ==
    /\ [](\A k \in 1..Len(untilCall.settled) :
            k < Invocations =>
                /\ untilCall.settled[k][1] = "resolved"
                /\ untilCall.settled[k][2] \in FalsyValues)
    /\ [][Invocations' > Invocations =>
            /\ Invocations' = Invocations + 1
            /\ Invocations = Len(untilCall.settled)]_vars
    /\ [](UntilCompleted =>
            /\ ~untilCall.awaiting
            /\ Invocations = Len(untilCall.settled)
            /\ EndsLoop(Invocations)
            /\ untilCall.outcome =
                  IF untilCall.settled[Invocations][1] = "rejected"
                  THEN untilCall.settled[Invocations]
                  ELSE <<"resolved", "true">>)
    /\ [][UntilCompleted => UNCHANGED untilCall]_vars
    /\ (\E k \in 1..Len(untilCall.settled) : EndsLoop(k)) ~> UntilCompleted

\* the loop ended at the third invocation, the first to resolve with true
C35_Witness ==
    /\ untilCall.outcome = <<"resolved", "true">>
    /\ untilCall.settled =
          << <<"resolved", "false">>, <<"resolved", "undefined">>,
             <<"resolved", "true">> >>

\* repairItem() has looked at the content of the item
RepairChecked ==
    repair.pc \in {"prompt", "done"} /\ repair.content.err = ""

\* the overview location of the item handed to repairItem() is not the
\* first URL of its content
LocationMismatch ==
    primaryLocation(repair.before[1]) #
        expectedLocation(repair.content.value[1])

\* prompt() is invoked if and only if the locations differ, and
\* item.save() is called if and only if prompt() resolved with true
PromptAndSave ==
    /\ repair.prompts <= 1
    /\ repair.saves <= 1
    /\ RepairChecked => (repair.prompts = 1 <=> LocationMismatch)
    /\ ~RepairChecked => repair.prompts = 0
    /\ repair.saves = 1 <=> repair.answer = <<TRUE>>
    /\ repair.saves = 1 => lastCall.op = "save"

\* the item as getContent() leaves it: an item without a store and without
\* content is given the empty content
WithContentRead(item) ==
    IF item.content = <<>> /\ item.store = NoStore
    THEN setContent(item, ContentUtil_empty)
    ELSE item

\* C36: repairItem prompts if and only if the primary overview location
\* of the item differs from the first URL of its decrypted content ('' if
\* the content has no URLs), calls item.save() if and only if the prompt
\* resolves with true, and, when the prompt resolves with false, leaves
\* the item as it was before repairItem was called.
C36_RepairAsksBeforeChanging ==
    /\ PromptAndSave
    /\ repair.answer = <<FALSE>> => items[repair.h] = repair.before[1]

\* C36, the part that the code keeps: the prompt and the save as above;
\* when the prompt resolves with false nothing is written to the store,
\* while the item in memory has its locations replaced by the URLs of the
\* content.
C36_RepairChangesLocationsFirst ==
    /\ [](/\ PromptAndSave
          /\ repair.answer = <<FALSE>> =>
                /\ items[repair.h] =
                      [WithContentRead(repair.before[1]) EXCEPT
                          !.locations = urlsOf(repair.content.value[1])]
                /\ items[repair.h].locations # repair.before[1].locations)
    /\ [][repair'.answer = <<FALSE>> =>
            /\ Storage' = Storage
            /\ written' = written]_vars

\* the user declined the repair of an item whose overview location was
\* another site
C36_Witness ==
    /\ repair.answer = <<FALSE>>
    /\ repair.before[1].locations = <<"mysite.com">>
    /\ items[repair.h].locations = <<"facebook.com">>
    /\ repair.outcome = <<"resolved">>

\* fs.readdir() and every fs.stat() that list() started have called back
ListQuiescent == listing.pc = "stat" /\ listing.pending = {}

\* the directory listed could be read
Readable == listing.dir # <<>>

\* the list holds one FileInfo for every entry of the directory, in any
\* order
OnePerEntry(infoList) ==
    /\ Len(infoList) = Len(listing.dir[1])
    /\ \A i \in 1..Len(listing.dir[1]) :
          \E k \in 1..Len(infoList) :
              infoList[k] =
                  FileInfo(listing.dir[1][i].name,
                           Path_join(ListAbsPath, listing.dir[1][i].name),
                           listing.dir[1][i].kind = "dir")

\* every entry of the directory can be examined by fs.stat()
AllStatable ==
    \A i \in 1..Len(listing.dir[1]) : listing.dir[1][i].kind # "dangling"

\* C37: list(path, cb) invokes cb exactly once for every readable
\* directory, with one FileInfo per directory entry, whatever the number
\* of entries, zero included, and whatever the order in which the stat
\* callbacks complete: cb is never invoked twice, and when all callbacks
\* of the file system have run it has been invoked, with such a list.
C37_ListCallsBackOnce ==
    /\ Len(listing.cbCalls) <= 1
    /\ Len(listing.cbCalls) = 1 =>
          /\ listing.cbCalls[1] = listing.infoList
          /\ OnePerEntry(listing.cbCalls[1])
    /\ (ListQuiescent /\ Readable) => Len(listing.cbCalls) = 1

\* C37, the part that the code keeps: cb is invoked at most once, with
\* one FileInfo per entry, and it has been invoked when all callbacks
\* have run if and only if the directory could be read, has at least one
\* entry and fs.stat() succeeded on every entry.
C37_ListCallsBackUnlessEmpty ==
    /\ Len(listing.cbCalls) <= 1
    /\ Len(listing.cbCalls) = 1 =>
          /\ listing.cbCalls[1] = listing.infoList
          /\ OnePerEntry(listing.cbCalls[1])
    /\ ListQuiescent =>
          (Len(listing.cbCalls) = 1 <=>
              /\ Readable
              /\ Len(listing.dir[1]) > 0
              /\ AllStatable)

\* a directory of three entries whose stat callbacks ran in another order
\* than that of the names
C37_Witness ==
    /\ Len(listing.cbCalls) = 1
    /\ Len(listing.cbCalls[1]) = 3
    /\ listing.cbCalls[1][1].name = "c"
    /\ listing.cbCalls[1][3].name = "a"
    /\ listing.cbCalls[1][2].isDir

\* the text is token data whose fields are there and whose state is the
\* one given
TokenFor(text, state) ==
    /\ IsJSON(text)
    /\ JSON_parse(text).accessToken # ""
    /\ JSON_parse(text).state = btoa(Text(state))

\* the poll callback runs and finds a text under the key
ReadsEntry ==
    /\ lastCall'.op = "poll"
    /\ auth.storage # NoEntry
    /\ auth.storage[1] # EmptyText

\* C38: authenticate() resolves with credentials only if the token data
\* found in local storage carries the random state of this call; token
\* data with a missing field or another state rejects the flow; the entry
\* is removed from local storage in the poll that reads it; and polling
\* stops once the promise has settled: the timer is cleared by the
\* finally() handler, and no poll changes a settled promise.
C38_AuthChecksState ==
    /\ [](auth.credentials[1] = "resolved" =>
            /\ auth.settledBy # NoEntry
            /\ TokenFor(auth.settledBy[1], auth.state)
            /\ auth.credentials[2] =
                  [accessToken |-> JSON_parse(auth.settledBy[1]).accessToken])
    /\ [][(ReadsEntry /\ auth.credentials = <<"pending">>) =>
            IF TokenFor(auth.storage[1], auth.state)
            THEN auth'.credentials[1] = "resolved"
            ELSE auth'.credentials[1] = "rejected"]_vars
    /\ [][ReadsEntry => auth'.storage = NoEntry]_vars
    /\ [][Settled => auth'.credentials = auth.credentials]_vars
    /\ [](auth.cleaned => ~auth.polling /\ ~auth.windowOpen)
    /\ [][auth.cleaned => UNCHANGED auth]_vars
    /\ Settled ~> ~auth.polling

\* token data with the state of another call was stored and read: the
\* flow is rejected, the entry is gone and the timer is cleared
C38_Witness ==
    /\ auth.credentials = <<"rejected", StateMismatch>>
    /\ auth.state = "s1"
    /\ auth.settledBy =
          << tokenText([accessToken |-> "token1", state |-> btoa(Text("s2"))]) >>
    /\ auth.storage = NoEntry
    /\ ~auth.polling

====
